---------------------------- MODULE Spec2Model ----------------------------
(***************************************************************************)
(* A model of the Garmin export ingestion pipeline                         *)
(* (src/src/services/dataParser/garminParser.ts, the current variant at    *)
(* lines 187-490): parseGarminData and its five extractors; of its caller  *)
(* FileUpload.processZipFile; and of the analysis layer: the correlation   *)
(* engine (services/analytics/correlationAnalysis.ts), its use in          *)
(* CorrelationAnalysis.tsx and the sleep-duration rule of Insights.tsx.    *)
(*                                                                         *)
(* JSON values are tagged records: [t |-> "null"], [t |-> "num", n |-> 1], *)
(* [t |-> "str", s |-> "x"], [t |-> "arr", a |-> <<...>>] and, for a JSON  *)
(* object, a record [t |-> "obj", field |-> value, ...].  JavaScript's     *)
(* undefined is [t |-> "undefined"].  File names are sequences of          *)
(* characters so that includes / endsWith / toLowerCase are computed.      *)
(***************************************************************************)
EXTENDS Integers, Sequences, FiniteSets, TLC

-----------------------------------------------------------------------------
(* JavaScript values *)

Undefined == [t |-> "undefined"]
Null == [t |-> "null"]
Num(n) == [t |-> "num", n |-> n]
Str(s) == [t |-> "str", s |-> s]
Arr(a) == [t |-> "arr", a |-> a]
EmptyObj == [t |-> "obj"]

\* ToBoolean: what `x && ...`, `x || ...` and `if (x)` test
Truthy(v) ==
  CASE v.t = "undefined" -> FALSE
    [] v.t = "null" -> FALSE
    [] v.t = "num" -> v.n # 0
    [] v.t = "str" -> v.s # ""
    [] OTHER -> TRUE

\* typeof v === 'object' (true of null, arrays and objects)
TypeofObject(v) == v.t \in {"null", "arr", "obj"}

IsArray(v) == v.t = "arr"

\* v === undefined || v === null: a property read on v throws TypeError
Nullish(v) == v.t \in {"undefined", "null"}

\* v.f for a non-nullish v: the own property of an object, undefined otherwise
Get(v, f) == IF v.t = "obj" /\ f \in DOMAIN v THEN v[f] ELSE Undefined

\* a || b
OrElse(a, b) == IF Truthy(a) THEN a ELSE b

\* {...o, f: x} for an object o
WithField(o, f, x) == [g \in (DOMAIN o) \cup {f} |-> IF g = f THEN x ELSE o[g]]

-----------------------------------------------------------------------------
(* Dates.  A time value is [valid |-> TRUE, ms |-> n] or the invalid date  *)
(* (getTime() = NaN).  Date strings are parsed through a table: the day    *)
(* strings of exported records and the strings toISOString() produces.     *)

NaNTime == [valid |-> FALSE, ms |-> 0]
Time(n) == [valid |-> TRUE, ms |-> n]

DayStrings == <<"2024-01-01", "2024-01-02", "2024-01-03">>
IsoStrings == <<"2024-01-01T00:00:00.000Z", "2024-01-02T00:00:00.000Z",
                "2024-01-03T00:00:00.000Z">>
EpochIso == "1970-01-01T00:00:00.000Z"

\* Date.parse of a string
DateParse(s) ==
  IF \E i \in 1..Len(DayStrings) : DayStrings[i] = s
  THEN Time(CHOOSE i \in 1..Len(DayStrings) : DayStrings[i] = s)
  ELSE IF \E i \in 1..Len(IsoStrings) : IsoStrings[i] = s
  THEN Time(CHOOSE i \in 1..Len(IsoStrings) : IsoStrings[i] = s)
  ELSE IF s = EpochIso THEN Time(0)
  ELSE NaNTime

\* new Date(v).getTime()
NewDate(v) ==
  CASE v.t = "undefined" -> NaNTime
    [] v.t = "null" -> Time(0)
    [] v.t = "num" -> Time(v.n)
    [] v.t = "str" -> DateParse(v.s)
    [] OTHER -> NaNTime

\* Date.prototype.toISOString throws RangeError on an invalid date
ToISOThrows(d) == ~d.valid

ToISOString(d) ==
  IF d.ms \in 1..Len(IsoStrings) THEN Str(IsoStrings[d.ms]) ELSE Str(EpochIso)

-----------------------------------------------------------------------------
(* The extractors.  Each returns [threw, out]: threw is TRUE when the      *)
(* JavaScript function throws (TypeError on a property read of null,        *)
(* RangeError of toISOString on an invalid date), and out is its return     *)
(* value otherwise.                                                         *)

Returned(v) == [threw |-> FALSE, out |-> v]
Thrown == [threw |-> TRUE, out |-> <<>>]

\* index of the first property of props whose value in data is an array, 0 if none
FirstArrayProp(data, props) ==
  IF \E k \in 1..Len(props) : IsArray(Get(data, props[k]))
  THEN CHOOSE k \in 1..Len(props) :
         /\ IsArray(Get(data, props[k]))
         /\ \A j \in 1..(k - 1) : ~IsArray(Get(data, props[j]))
  ELSE 0

\* a filter that tests truthiness only
SleepItemTruthy(item) == Truthy(item)

\* item && typeof item === 'object'
SleepItemOk(item) == Truthy(item) /\ TypeofObject(item)

SleepWrapperProps == <<"sleepData", "data", "records", "items">>

parseSleepData(data) ==
  IF IsArray(data) THEN Returned(SelectSeq(data.a, SleepItemOk))
  ELSE IF Truthy(data) /\ TypeofObject(data)
  THEN LET k == FirstArrayProp(data, SleepWrapperProps) IN
       IF k > 0
       THEN Returned(SelectSeq(Get(data, SleepWrapperProps[k]).a, SleepItemOk))
       ELSE Returned(<<>>)
  ELSE Returned(<<>>)

\* agg.type === 'TOTAL', for a non-nullish agg
IsTotal(agg) == Get(agg, "type") = Str("TOTAL")

\* data.allDayStress?.aggregatorList
AggregatorList(data) ==
  LET ads == Get(data, "allDayStress") IN
  IF Nullish(ads) THEN Undefined ELSE Get(ads, "aggregatorList")

\* ...?.find(agg => agg.type === 'TOTAL') throws: find is not a function of a
\* non-array, and agg.type throws on a null element met before a match
StressFindThrows(data) ==
  LET al == AggregatorList(data) IN
  IF Nullish(al) THEN FALSE
  ELSE IF ~IsArray(al) THEN TRUE
  ELSE \E i \in 1..Len(al.a) :
         /\ Nullish(al.a[i])
         /\ \A j \in 1..(i - 1) : ~IsTotal(al.a[j])

\* the value of data.allDayStress?.aggregatorList?.find(...)
StressTotal(data) ==
  LET al == AggregatorList(data) IN
  IF Nullish(al) THEN Undefined
  ELSE IF \E i \in 1..Len(al.a) : IsTotal(al.a[i])
  THEN al.a[CHOOSE i \in 1..Len(al.a) :
              IsTotal(al.a[i]) /\ \A j \in 1..(i - 1) : ~IsTotal(al.a[j])]
  ELSE Undefined

\* ...find(...)?.f
StressField(data, f) ==
  LET tot == StressTotal(data) IN
  IF Nullish(tot) THEN Undefined ELSE Get(tot, f)

\* The record parseWellnessData builds.  Of the pass-through fields
\* (record.x = data.x) calendarDate, totalSteps, restingHeartRate,
\* allDayStress and bodyBattery are modelled; the others are copied the same way.
WellnessRecord(data) ==
  [t |-> "obj",
   calendarDate |-> Get(data, "calendarDate"),
   totalSteps |-> Get(data, "totalSteps"),
   restingHeartRate |-> Get(data, "restingHeartRate"),
   averageStressLevel |-> StressField(data, "averageStressLevel"),
   maxStressLevel |-> StressField(data, "maxStressLevel"),
   stressDuration |-> StressField(data, "stressDuration"),
   restStressDuration |-> StressField(data, "restDuration"),
   activityStressDuration |-> StressField(data, "activityDuration"),
   uncategorizedStressDuration |-> StressField(data, "uncategorizedDuration"),
   totalStressDuration |-> StressField(data, "totalDuration"),
   lowStressDuration |-> StressField(data, "lowDuration"),
   mediumStressDuration |-> StressField(data, "mediumDuration"),
   highStressDuration |-> StressField(data, "highDuration"),
   allDayStress |-> Get(data, "allDayStress"),
   bodyBattery |-> Get(data, "bodyBattery")]

parseWellnessData(data) ==
  IF Truthy(data) /\ TypeofObject(data) /\ Truthy(Get(data, "calendarDate"))
  THEN IF StressFindThrows(data) THEN Thrown ELSE Returned(WellnessRecord(data))
  ELSE Returned(Null)

\* item && typeof item === 'object' && item.valueInML !== undefined
HydrationItemOk(item) ==
  Truthy(item) /\ TypeofObject(item) /\ Get(item, "valueInML").t # "undefined"

\* new Date(item.calendarDate).toISOString() is evaluated, and throws, only
\* when item.timestampGMT is falsy
HydrationMapThrows(item) ==
  /\ ~Truthy(Get(item, "timestampGMT"))
  /\ ToISOThrows(NewDate(Get(item, "calendarDate")))

HydrationRecord(item) ==
  [t |-> "obj",
   calendarDate |-> Get(item, "calendarDate"),
   valueInML |-> Get(item, "valueInML"),
   timestampGMT |-> IF Truthy(Get(item, "timestampGMT"))
                    THEN Get(item, "timestampGMT")
                    ELSE ToISOString(NewDate(Get(item, "calendarDate")))]

parseHydrationData(data) ==
  IF IsArray(data)
  THEN LET kept == SelectSeq(data.a, HydrationItemOk) IN
       IF \E i \in 1..Len(kept) : HydrationMapThrows(kept[i])
       THEN Thrown
       ELSE Returned([i \in 1..Len(kept) |-> HydrationRecord(kept[i])])
  ELSE Returned(<<>>)

\* item && typeof item === 'object' && item.activityType && item.startTimeGMT
ActivityItemOk(item) ==
  /\ Truthy(item) /\ TypeofObject(item)
  /\ Truthy(Get(item, "activityType"))
  /\ Truthy(Get(item, "startTimeGMT"))

ActivityWrapperProps == <<"summarizedActivities", "activities", "data", "records">>

\* building the record of one nested activity throws: a property read of
\* null, or toISOString of an invalid date
ActivityBuildThrows(activity) ==
  \/ Nullish(activity)
  \/ ToISOThrows(NewDate(OrElse(Get(activity, "startTimeGmt"),
                                Get(activity, "beginTimestamp"))))
  \/ ToISOThrows(NewDate(OrElse(Get(activity, "startTimeLocal"),
                                Get(activity, "beginTimestamp"))))

\* The record built at lines 408-446.  Of the pass-through fields distance,
\* duration, averageSpeed and averageHR are modelled.
ActivityRecord(activity) ==
  [t |-> "obj",
   activityType |-> OrElse(Get(activity, "activityType"), Get(activity, "sportType")),
   startTimeGMT |-> ToISOString(NewDate(OrElse(Get(activity, "startTimeGmt"),
                                               Get(activity, "beginTimestamp")))),
   startTimeLocal |-> ToISOString(NewDate(OrElse(Get(activity, "startTimeLocal"),
                                                 Get(activity, "beginTimestamp")))),
   activityName |-> OrElse(Get(activity, "name"), Get(activity, "activityType")),
   distance |-> Get(activity, "distance"),
   duration |-> Get(activity, "duration"),
   averageSpeed |-> Get(activity, "avgSpeed"),
   averageHR |-> Get(activity, "avgHr")]

\* item.summarizedActivitiesExport && Array.isArray(item.summarizedActivitiesExport)
WrapperHasList(item) ==
  /\ Truthy(Get(item, "summarizedActivitiesExport"))
  /\ IsArray(Get(item, "summarizedActivitiesExport"))

WrapperThrows(item) ==
  \/ Nullish(item)
  \/ /\ WrapperHasList(item)
     /\ \E i \in 1..Len(Get(item, "summarizedActivitiesExport").a) :
          ActivityBuildThrows(Get(item, "summarizedActivitiesExport").a[i])

RECURSIVE FlattenWrappers(_)
FlattenWrappers(items) ==
  IF items = <<>> THEN <<>>
  ELSE (IF WrapperHasList(Head(items))
        THEN LET nested == Get(Head(items), "summarizedActivitiesExport").a IN
             [i \in 1..Len(nested) |-> ActivityRecord(nested[i])]
        ELSE <<>>) \o FlattenWrappers(Tail(items))

parseActivities(data) ==
  IF IsArray(data) /\ Len(data.a) > 0 /\ Nullish(data.a[1]) THEN Thrown
  ELSE IF IsArray(data) /\ Len(data.a) > 0
          /\ Truthy(Get(data.a[1], "summarizedActivitiesExport"))
  THEN IF \E i \in 1..Len(data.a) : WrapperThrows(data.a[i])
       THEN Thrown
       ELSE Returned(FlattenWrappers(data.a))
  ELSE IF IsArray(data) THEN Returned(SelectSeq(data.a, ActivityItemOk))
  ELSE IF Truthy(data) /\ TypeofObject(data)
  THEN LET k == FirstArrayProp(data, ActivityWrapperProps) IN
       IF k > 0
       THEN Returned(SelectSeq(Get(data, ActivityWrapperProps[k]).a, ActivityItemOk))
       ELSE Returned(<<>>)
  ELSE Returned(<<>>)

parseMetricsData(data) ==
  IF Truthy(data) /\ TypeofObject(data)
  THEN IF Truthy(Get(data, "calendarDate")) \/ Truthy(Get(data, "metricsDate"))
       THEN Returned(WithField(data, "calendarDate",
                               OrElse(Get(data, "calendarDate"), Get(data, "metricsDate"))))
       ELSE IF IsArray(data) /\ Len(data.a) > 0 /\ Nullish(data.a[1]) THEN Thrown
       ELSE IF IsArray(data) /\ Len(data.a) > 0
               /\ Truthy(Get(data.a[1], "calendarDate"))
       THEN Returned(data.a[1])
       ELSE Returned(Null)
  ELSE Returned(Null)

-----------------------------------------------------------------------------
(* File names and the classification rules of the if / else-if chain.      *)

UpperChars == <<"A","B","C","D","E","F","G","H","I","J","K","L","M",
                "N","O","P","Q","R","S","T","U","V","W","X","Y","Z">>
LowerChars == <<"a","b","c","d","e","f","g","h","i","j","k","l","m",
                "n","o","p","q","r","s","t","u","v","w","x","y","z">>

LowerChar(c) ==
  IF \E k \in 1..Len(UpperChars) : UpperChars[k] = c
  THEN LowerChars[CHOOSE k \in 1..Len(UpperChars) : UpperChars[k] = c]
  ELSE c

\* String.prototype.toLowerCase
ToLowerCase(s) == [k \in 1..Len(s) |-> LowerChar(s[k])]

\* String.prototype.includes
Includes(s, sub) ==
  \E k \in 0..(Len(s) - Len(sub)) : SubSeq(s, k + 1, k + Len(sub)) = sub

\* String.prototype.endsWith
EndsWith(s, suf) ==
  /\ Len(s) >= Len(suf)
  /\ SubSeq(s, Len(s) - Len(suf) + 1, Len(s)) = suf

T_sleep == <<"s","l","e","e","p">>
T_json == <<".","j","s","o","n">>
T_UDSFile == <<"U","D","S","F","i","l","e","_">>
T_hydration == <<"h","y","d","r","a","t","i","o","n">>
T_summarizedactivities ==
  <<"s","u","m","m","a","r","i","z","e","d","a","c","t","i","v","i","t","i","e","s">>
T_summarizedActivities ==
  <<"_","s","u","m","m","a","r","i","z","e","d","A","c","t","i","v","i","t","i","e","s">>
T_MetricsMaxMetData ==
  <<"M","e","t","r","i","c","s","M","a","x","M","e","t","D","a","t","a","_">>

\* line 228
IsSleepName(filename) ==
  Includes(ToLowerCase(filename), T_sleep) /\ EndsWith(filename, T_json)
\* line 236
IsWellnessName(filename) == Includes(filename, T_UDSFile)
\* line 251
IsHydrationName(filename) == Includes(ToLowerCase(filename), T_hydration)
\* line 259
IsActivityName(filename) ==
  \/ Includes(ToLowerCase(filename), T_summarizedactivities)
  \/ Includes(filename, T_summarizedActivities)
\* line 267
IsMetricsName(filename) == Includes(filename, T_MetricsMaxMetData)

Categories == <<"sleepData", "wellnessData", "hydrationData", "activities", "metricsData">>

\* whether the rule of a category accepts the file name
RuleMatches(cat, filename) ==
  CASE cat = "sleepData" -> IsSleepName(filename)
    [] cat = "wellnessData" -> IsWellnessName(filename)
    [] cat = "hydrationData" -> IsHydrationName(filename)
    [] cat = "activities" -> IsActivityName(filename)
    [] cat = "metricsData" -> IsMetricsName(filename)

\* the chain with the hydration test moved before the sleep test
ClassifyHydrationFirst(filename) ==
  IF IsHydrationName(filename) THEN "hydrationData"
  ELSE IF IsSleepName(filename) THEN "sleepData"
  ELSE IF IsWellnessName(filename) THEN "wellnessData"
  ELSE IF IsActivityName(filename) THEN "activities"
  ELSE IF IsMetricsName(filename) THEN "metricsData"
  ELSE "unknown"

\* The branch of the if / else-if chain (lines 228-283) taken for a file name:
\* a category, or "unknown" (the last branch logs, or nothing happens)
Classify(filename) ==
  IF IsSleepName(filename) THEN "sleepData"
  ELSE IF IsWellnessName(filename) THEN "wellnessData"
  ELSE IF IsHydrationName(filename) THEN "hydrationData"
  ELSE IF IsActivityName(filename) THEN "activities"
  ELSE IF IsMetricsName(filename) THEN "metricsData"
  ELSE "unknown"

-----------------------------------------------------------------------------
(* One loop iteration's classify / extract / append (lines 227-283), and    *)
(* the final sort (lines 302-317).                                          *)

EmptyResult ==
  [sleepData |-> <<>>, wellnessData |-> <<>>, hydrationData |-> <<>>,
   activities |-> <<>>, metricsData |-> <<>>]

\* data.forEach(record => { const w = parseWellnessData(record); if (w) push(w) }):
\* the index of the first record on which parseWellnessData throws, Len + 1 if none
WellnessStop(items) ==
  IF \E k \in 1..Len(items) : parseWellnessData(items[k]).threw
  THEN CHOOSE k \in 1..Len(items) :
         /\ parseWellnessData(items[k]).threw
         /\ \A j \in 1..(k - 1) : ~parseWellnessData(items[j]).threw
  ELSE Len(items) + 1

RECURSIVE WellnessPushes(_, _)
WellnessPushes(items, stop) ==
  IF stop <= 1 \/ items = <<>> THEN <<>>
  ELSE (IF Truthy(parseWellnessData(Head(items)).out)
        THEN <<parseWellnessData(Head(items)).out>>
        ELSE <<>>) \o WellnessPushes(Tail(items), stop - 1)

\* the aggregation of the earliest variant, which assigns the sleep and the
\* activity collection where the current one appends
ProcessDataReplacing(filename, data, res) ==
  LET cat == Classify(filename) IN
  CASE cat = "sleepData" ->
         [threw |-> FALSE,
          result |-> [res EXCEPT !.sleepData = parseSleepData(data).out]]
    [] cat = "wellnessData" ->
         IF IsArray(data)
         THEN [threw |-> WellnessStop(data.a) <= Len(data.a),
               result |-> [res EXCEPT !.wellnessData =
                             @ \o WellnessPushes(data.a, WellnessStop(data.a))]]
         ELSE [threw |-> FALSE, result |-> res]
    [] cat = "hydrationData" ->
         IF parseHydrationData(data).threw
         THEN [threw |-> TRUE, result |-> res]
         ELSE [threw |-> FALSE,
               result |-> [res EXCEPT !.hydrationData = @ \o parseHydrationData(data).out]]
    [] cat = "activities" ->
         IF parseActivities(data).threw
         THEN [threw |-> TRUE, result |-> res]
         ELSE [threw |-> FALSE,
               result |-> [res EXCEPT !.activities = parseActivities(data).out]]
    [] cat = "metricsData" ->
         IF Truthy(data) /\ TypeofObject(data)
         THEN IF parseMetricsData(data).threw
              THEN [threw |-> TRUE, result |-> res]
              ELSE IF Truthy(parseMetricsData(data).out)
              THEN [threw |-> FALSE,
                    result |-> [res EXCEPT !.metricsData = Append(@, parseMetricsData(data).out)]]
              ELSE [threw |-> FALSE, result |-> res]
         ELSE [threw |-> FALSE, result |-> res]
    [] OTHER -> [threw |-> FALSE, result |-> res]

\* The body of the inner part of the try block for a parsed payload: which
\* records are appended to which collection, and whether an error is thrown.
\* An extractor that throws has appended nothing; the wellness loop keeps
\* what it pushed before the throw.
ProcessData(filename, data, res) ==
  LET cat == Classify(filename) IN
  CASE cat = "sleepData" ->
         [threw |-> FALSE,
          result |-> [res EXCEPT !.sleepData = @ \o parseSleepData(data).out]]
    [] cat = "wellnessData" ->
         IF IsArray(data)
         THEN [threw |-> WellnessStop(data.a) <= Len(data.a),
               result |-> [res EXCEPT !.wellnessData =
                             @ \o WellnessPushes(data.a, WellnessStop(data.a))]]
         ELSE [threw |-> FALSE, result |-> res]
    [] cat = "hydrationData" ->
         IF parseHydrationData(data).threw
         THEN [threw |-> TRUE, result |-> res]
         ELSE [threw |-> FALSE,
               result |-> [res EXCEPT !.hydrationData = @ \o parseHydrationData(data).out]]
    [] cat = "activities" ->
         IF parseActivities(data).threw
         THEN [threw |-> TRUE, result |-> res]
         ELSE [threw |-> FALSE,
               result |-> [res EXCEPT !.activities = @ \o parseActivities(data).out]]
    [] cat = "metricsData" ->
         IF Truthy(data) /\ TypeofObject(data)
         THEN IF parseMetricsData(data).threw
              THEN [threw |-> TRUE, result |-> res]
              ELSE IF Truthy(parseMetricsData(data).out)
              THEN [threw |-> FALSE,
                    result |-> [res EXCEPT !.metricsData = Append(@, parseMetricsData(data).out)]]
              ELSE [threw |-> FALSE, result |-> res]
         ELSE [threw |-> FALSE, result |-> res]
    [] OTHER -> [threw |-> FALSE, result |-> res]

\* the fields the comparators read; line 313 reads startTimeGmt
SleepSortField == "sleepStartTimestampGMT"
CalendarSortField == "calendarDate"
ActivitySortField == "startTimeGmt"

\* the sort key: new Date(a.<field>).getTime()
DateKey(r, field) == NewDate(Get(r, field))

\* the comparator (a, b) => key(a) - key(b); sort treats a NaN result as +0
Compare(ka, kb) == IF ka.valid /\ kb.valid THEN ka.ms - kb.ms ELSE 0

\* Array.prototype.sort with that comparator.  When the comparator is
\* consistent the sort is stable and its result unique.  An invalid date among
\* distinct valid ones makes it inconsistent (it equals both of two unequal
\* elements), and the order is then implementation-defined: any permutation.
SortOutcomes(list, field) ==
  LET n == Len(list)
      Key(r) == DateKey(r, field)
      consistent ==
        ~\E a, b, c \in 1..n :
            /\ ~Key(list[a]).valid
            /\ Key(list[b]).valid /\ Key(list[c]).valid
            /\ Key(list[b]).ms # Key(list[c]).ms
      rank(k) ==
        1 + Cardinality({j \in 1..n : Compare(Key(list[j]), Key(list[k])) < 0})
          + Cardinality({j \in 1..(k - 1) : Compare(Key(list[j]), Key(list[k])) = 0})
  IN IF consistent
     THEN {[k \in 1..n |-> list[CHOOSE j \in 1..n : rank(j) = k]]}
     ELSE {[k \in 1..n |-> list[q[k]]] : q \in Permutations(1..n)}

-----------------------------------------------------------------------------
(* Inputs: file names and payloads the archives are drawn from.             *)

N_sleep == <<"s","l","e","e","p",".","j","s","o","n">>
N_SleepUpper == <<"S","l","e","e","p",".","J","S","O","N">>
N_uds == <<"U","D","S","F","i","l","e","_","1",".","j","s","o","n">>
N_udsLower == <<"u","d","s","f","i","l","e","_","1",".","j","s","o","n">>
N_hydration == <<"h","y","d","r","a","t","i","o","n",".","j","s","o","n">>
N_sleepHydration ==
  <<"s","l","e","e","p","_","h","y","d","r","a","t","i","o","n",".","j","s","o","n">>
N_udsHydration ==
  <<"U","D","S","F","i","l","e","_","h","y","d","r","a","t","i","o","n",".","j","s","o","n">>
N_hydrationActs ==
  <<"h","y","d","r","a","t","i","o","n","_","s","u","m","m","a","r","i","z","e","d",
    "A","c","t","i","v","i","t","i","e","s",".","j","s","o","n">>
N_acts ==
  <<"1","_","s","u","m","m","a","r","i","z","e","d","A","c","t","i","v","i","t","i","e","s",
    ".","j","s","o","n">>
N_actsPlain == <<"a","c","t","i","v","i","t","i","e","s",".","j","s","o","n">>
N_actsMetrics ==
  <<"M","e","t","r","i","c","s","M","a","x","M","e","t","D","a","t","a","_",
    "s","u","m","m","a","r","i","z","e","d","A","c","t","i","v","i","t","i","e","s",
    ".","j","s","o","n">>
N_metrics ==
  <<"M","e","t","r","i","c","s","M","a","x","M","e","t","D","a","t","a","_","1",
    ".","j","s","o","n">>
N_metricsLower ==
  <<"m","e","t","r","i","c","s","m","a","x","m","e","t","d","a","t","a","_","1",
    ".","j","s","o","n">>
N_user == <<"u","s","e","r",".","j","s","o","n">>
N_readme == <<"r","e","a","d","m","e",".","t","x","t">>
N_dir == <<"D","I","_","C","O","N","N","E","C","T","/">>

\* names matching several rules, none, or a rule only up to letter case
OtherNames ==
  {N_SleepUpper, N_udsLower, N_sleepHydration, N_udsHydration, N_hydrationActs,
   N_actsPlain, N_actsMetrics, N_metricsLower, N_user, N_readme}

\* an item every list extractor keeps: it carries the fields of all categories
Item(d) ==
  [t |-> "obj",
   calendarDate |-> Str(DayStrings[d]),
   sleepStartTimestampGMT |-> Str(IsoStrings[d]),
   valueInML |-> Num(500),
   timestampGMT |-> Str(IsoStrings[d]),
   activityType |-> Str("running"),
   startTimeGMT |-> Str(IsoStrings[d])]

\* a nested activity of the summarizedActivitiesExport shape
Act(d) ==
  [t |-> "obj",
   activityType |-> Str("running"),
   name |-> Str("Run"),
   startTimeGmt |-> Str(IsoStrings[d]),
   startTimeLocal |-> Str(IsoStrings[d]),
   duration |-> Num(60)]

P_two == Arr(<<Item(2), Item(1)>>)
P_one == Arr(<<Item(3)>>)
P_nullElem == Arr(<<Null>>)
P_emptyObj == Arr(<<EmptyObj>>)
P_wrapped == Arr(<<[t |-> "obj", summarizedActivitiesExport |-> Arr(<<Act(2), Act(1)>>)]>>)
P_noDate == Arr(<<[t |-> "obj", valueInML |-> Num(250)]>>)
P_object == [t |-> "obj", calendarDate |-> Str(DayStrings[1]), vo2Max |-> Num(50)]
P_badStress ==
  Arr(<<Item(1),
        [t |-> "obj", calendarDate |-> Str(DayStrings[2]),
         allDayStress |-> [t |-> "obj", aggregatorList |-> Num(1)]]>>)
P_number == Num(5)

\* An archive entry: a directory, or a file whose text is unreadable (async
\* rejects), is not JSON (JSON.parse throws), or parses to data
JsonEntry(n, p) == [name |-> n, dir |-> FALSE, kind |-> "json", data |-> p]
TextEntry(n) == [name |-> n, dir |-> FALSE, kind |-> "text", data |-> Null]
UnreadableEntry(n) == [name |-> n, dir |-> FALSE, kind |-> "unreadable", data |-> Null]
DirEntry(n) == [name |-> n, dir |-> TRUE, kind |-> "dir", data |-> Null]

\* the files of the archives: each rule's name with payloads its extractor
\* keeps, drops or throws on, and every other name with the two-item payload
SamplePairs ==
  {<<N_sleep, P_two>>, <<N_sleep, P_one>>, <<N_sleep, P_emptyObj>>,
   <<N_uds, P_two>>, <<N_uds, P_badStress>>, <<N_uds, P_object>>,
   <<N_hydration, P_two>>, <<N_hydration, P_noDate>>,
   <<N_acts, P_two>>, <<N_acts, P_wrapped>>, <<N_acts, P_nullElem>>,
   <<N_metrics, P_object>>, <<N_metrics, P_two>>, <<N_metrics, P_nullElem>>,
   <<N_metrics, P_number>>}
    \cup {<<n, P_two>> : n \in OtherNames}

Entries ==
  {JsonEntry(np[1], np[2]) : np \in SamplePairs}
    \cup {TextEntry(N_readme), TextEntry(N_user), UnreadableEntry(N_user),
          DirEntry(N_dir)}

MaxEntries == 2

\* zip.files is keyed by name: the entries of an archive have distinct names
Archives ==
  {fs \in UNION {[1..n -> Entries] : n \in 0..MaxEntries} :
     \A a, b \in 1..Len(fs) : a # b => fs[a].name # fs[b].name}

-----------------------------------------------------------------------------
(* parseGarminData as a state machine.  The function suspends at            *)
(* `await file.async('string')` only; everything between two awaits is one  *)
(* step.                                                                    *)

VARIABLES
  files,           \* Object.keys(zip.files), with each key's entry
  onProgress,      \* whether a progress callback was passed
  i,               \* position of the for-of loop in files (1-based)
  pc,              \* "loop" | "await" | "done" | "rejected" | "off"
  processedFiles,  \* the counter of line 203
  progress,        \* the values passed to onProgress so far, as fractions
  result,          \* the accumulating GarminDataExport
  readLog,         \* history: the indices whose file.async was called, in order
  exPayload,       \* extractor harness: the payload
  exFn,            \* extractor harness: the extractor applied, "none" before
  exOut,           \* extractor harness: what it returned
  run,             \* which call on the archive is running: 1, or 2 for a repeat
  firstRun,        \* history: what the first call sorted and what it returned
  upPc,            \* processZipFile: "off" | "idle" | "loading" | "parsing" | "finished"
  zipLoads,        \* whether zip.loadAsync(file) resolves
  isProcessing,    \* FileUpload state: isProcessing
  error,           \* FileUpload state: error, null or a message
  loaded           \* history: the arguments of the onDataLoaded calls, in order

vars ==
  <<files, onProgress, i, pc, processedFiles, progress, result, readLog,
    exPayload, exFn, exOut, run, firstRun,
    upPc, zipLoads, isProcessing, error, loaded>>

exVars == <<exPayload, exFn, exOut>>

runVars == <<run, firstRun>>

uiVars == <<upPc, zipLoads, isProcessing, error, loaded>>

\* no upload is under way: the values of useState (lines 13-14)
NoUpload ==
  /\ upPc = "off"
  /\ zipLoads = TRUE
  /\ isProcessing = FALSE
  /\ error = Null
  /\ loaded = <<>>

NoFirstRun == [unsorted |-> EmptyResult, returned |-> EmptyResult]

\* a catch that rethrows what it caught
EntryErrorRethrown(threw) == threw

\* the catch of lines 284-286 logs and swallows every error of the try block
EntryErrorRejects(threw) == FALSE

\* a loop that stops one entry early
LoopDoneEarly(idx, fs) == idx >= Len(fs)

\* for (const filename of files) is exhausted
LoopDone(idx, fs) == idx > Len(fs)

\* the operands of the division swapped
ProgressValueInverted(processed, fs) == [num |-> Len(fs), den |-> processed]

\* processedFiles / files.length (line 290)
ProgressValue(processed, fs) == [num |-> processed, den |-> Len(fs)]

Init ==
  /\ files \in Archives
  /\ onProgress \in BOOLEAN
  /\ i = 1
  /\ pc = "loop"
  /\ processedFiles = 0
  /\ progress = <<>>
  /\ result = EmptyResult
  /\ readLog = <<>>
  /\ exPayload = Null
  /\ exFn = "off"
  /\ exOut = Returned(<<>>)
  /\ run = 1
  /\ firstRun = NoFirstRun
  /\ NoUpload

\* lines 288-291, then the next iteration
CountAndReport ==
  /\ processedFiles' = processedFiles + 1
  /\ progress' = IF onProgress
                 THEN Append(progress, ProgressValue(processedFiles + 1, files))
                 ELSE progress
  /\ i' = i + 1
  /\ pc' = "loop"

\* line 212: if (file.dir) continue
SkipDirectory ==
  /\ pc = "loop"
  /\ ~LoopDone(i, files)
  /\ files[i].dir
  /\ i' = i + 1
  /\ UNCHANGED <<files, onProgress, pc, processedFiles, progress, result, readLog, exVars, runVars, uiVars>>

\* line 215: file.async('string') is called and the function suspends
StartRead ==
  /\ pc = "loop"
  /\ ~LoopDone(i, files)
  /\ ~files[i].dir
  /\ readLog' = Append(readLog, i)
  /\ pc' = "await"
  /\ UNCHANGED <<files, onProgress, i, processedFiles, progress, result, exVars, runVars, uiVars>>

\* the read rejects: the outer catch (284-286), then lines 288-291
ReadRejected ==
  /\ pc = "await"
  /\ files[i].kind = "unreadable"
  /\ IF EntryErrorRejects(TRUE)
     THEN pc' = "rejected" /\ UNCHANGED <<i, processedFiles, progress>>
     ELSE CountAndReport
  /\ UNCHANGED <<files, onProgress, result, readLog, exVars, runVars, uiVars>>

\* JSON.parse throws: the inner catch logs and continues (lines 220-223)
ParseFailed ==
  /\ pc = "await"
  /\ files[i].kind = "text"
  /\ i' = i + 1
  /\ pc' = "loop"
  /\ UNCHANGED <<files, onProgress, processedFiles, progress, result, readLog, exVars, runVars, uiVars>>

\* the payload parsed: classify, extract, append (227-283), a thrown error
\* caught at 284-286, then lines 288-291
ProcessEntry ==
  /\ pc = "await"
  /\ files[i].kind = "json"
  /\ LET o == ProcessData(files[i].name, files[i].data, result) IN
       /\ result' = o.result
       /\ IF EntryErrorRejects(o.threw)
          THEN pc' = "rejected" /\ UNCHANGED <<i, processedFiles, progress>>
          ELSE CountAndReport
  /\ UNCHANGED <<files, onProgress, readLog, exVars, runVars, uiVars>>

\* a sort whose result is chosen anew at every call
EngineSortAnew(list, field, cat) == SortOutcomes(list, field)

\* Array.prototype.sort as the engine running the program performs it: its
\* algorithm is fixed, so where the order is implementation-defined a repeated
\* call on an equal list with the same comparator returns what the first did
EngineSort(list, field, cat) ==
  IF run = 2 /\ list = firstRun.unsorted[cat]
  THEN {firstRun.returned[cat]}
  ELSE SortOutcomes(list, field)

\* after the loop: the five sorts (302-317) and return result (319)
SortAndReturn ==
  /\ pc = "loop"
  /\ LoopDone(i, files)
  /\ \E s \in EngineSort(result.sleepData, SleepSortField, "sleepData"),
        w \in EngineSort(result.wellnessData, CalendarSortField, "wellnessData"),
        h \in EngineSort(result.hydrationData, CalendarSortField, "hydrationData"),
        a \in EngineSort(result.activities, ActivitySortField, "activities"),
        m \in EngineSort(result.metricsData, CalendarSortField, "metricsData") :
       /\ result' = [sleepData |-> s, wellnessData |-> w, hydrationData |-> h,
                     activities |-> a, metricsData |-> m]
       /\ firstRun' = IF run = 1
                      THEN [unsorted |-> result,
                            returned |-> [sleepData |-> s, wellnessData |-> w,
                                          hydrationData |-> h, activities |-> a,
                                          metricsData |-> m]]
                      ELSE firstRun
  /\ pc' = "done"
  /\ UNCHANGED <<files, onProgress, i, processedFiles, progress, readLog, exVars, run, uiVars>>

Next ==
  \/ SkipDirectory
  \/ StartRead
  \/ ReadRejected
  \/ ParseFailed
  \/ ProcessEntry
  \/ SortAndReturn

Spec == Init /\ [][Next]_vars

\* parseGarminData is called again on the same archive, with the same
\* callback: lines 194-203 of the new call
RunAgain ==
  /\ pc = "done"
  /\ run = 1
  /\ run' = 2
  /\ i' = 1
  /\ pc' = "loop"
  /\ processedFiles' = 0
  /\ progress' = <<>>
  /\ result' = EmptyResult
  /\ readLog' = <<>>
  /\ UNCHANGED <<files, onProgress, exVars, firstRun, uiVars>>

NextTwice ==
  \/ Next
  \/ RunAgain

SpecTwice == Init /\ [][NextTwice]_vars

-----------------------------------------------------------------------------
(* FileUpload.processZipFile (FileUpload.tsx, lines 17-60), the caller of   *)
(* parseGarminData.  It suspends at the two awaits; uploadProgress is       *)
(* 20 + 80 * the last value of progress and takes no part in any decision.  *)

E_notZip == Str("Please upload a ZIP file")
E_loadFailed == Str("Failed to process file")
E_noData == Str("No data found in the ZIP file.")

\* lines 33-38
TotalRecords(r) ==
  Len(r.sleepData) + Len(r.wellnessData) + Len(r.activities)
    + Len(r.hydrationData) + Len(r.metricsData)

\* a test that never finds the result empty
NoDataFoundNever(total) == FALSE

\* line 40: totalRecords === 0
NoDataFound(total) == total = 0

\* a finally block that leaves the flag as it is
FinallyKeepsProcessing(flag) == flag

\* lines 57-59: finally { setIsProcessing(false) }
FinallyIsProcessing(flag) == FALSE

InitUpload ==
  /\ zipLoads \in BOOLEAN
  /\ files \in (IF zipLoads THEN Archives ELSE {<<>>})
  /\ onProgress = TRUE
  /\ i = 1
  /\ pc = "off"
  /\ processedFiles = 0
  /\ progress = <<>>
  /\ result = EmptyResult
  /\ readLog = <<>>
  /\ exPayload = Null
  /\ exFn = "off"
  /\ exOut = Returned(<<>>)
  /\ run = 1
  /\ firstRun = NoFirstRun
  /\ upPc = "idle"
  /\ isProcessing = FALSE
  /\ error \in {Null, E_notZip}
  /\ loaded = <<>>

uploadOnly == <<files, onProgress, i, processedFiles, progress, result, readLog,
                exVars, runVars, zipLoads>>

\* lines 18-24: the state is reset and zip.loadAsync(file) awaited
BeginUpload ==
  /\ upPc = "idle"
  /\ isProcessing' = TRUE
  /\ error' = Null
  /\ upPc' = "loading"
  /\ UNCHANGED <<uploadOnly, pc, loaded>>

\* loadAsync rejects: catch (54-56) and finally (57-59)
LoadRejected ==
  /\ upPc = "loading"
  /\ ~zipLoads
  /\ error' = E_loadFailed
  /\ isProcessing' = FinallyIsProcessing(isProcessing)
  /\ upPc' = "finished"
  /\ UNCHANGED <<uploadOnly, pc, loaded>>

\* loadAsync resolves: parseGarminData is called with a callback (line 28)
LoadResolved ==
  /\ upPc = "loading"
  /\ zipLoads
  /\ pc' = "loop"
  /\ upPc' = "parsing"
  /\ UNCHANGED <<uploadOnly, isProcessing, error, loaded>>

\* parseGarminData settles: the sum-of-lengths test (33-42), onDataLoaded
\* (52) or the catch (54-56), and finally (57-59)
ParseSettled ==
  /\ upPc = "parsing"
  /\ pc \in {"done", "rejected"}
  /\ IF pc = "rejected"
     THEN error' = E_loadFailed /\ loaded' = loaded
     ELSE IF NoDataFound(TotalRecords(result))
     THEN error' = E_noData /\ loaded' = loaded
     ELSE error' = error /\ loaded' = Append(loaded, result)
  /\ isProcessing' = FinallyIsProcessing(isProcessing)
  /\ upPc' = "finished"
  /\ UNCHANGED <<uploadOnly, pc>>

NextUpload ==
  \/ BeginUpload
  \/ LoadRejected
  \/ LoadResolved
  \/ ParseSettled
  \/ Next

SpecUpload == InitUpload /\ [][NextUpload]_vars

\* an awaited promise settles and its continuation runs
SpecUploadFair == SpecUpload /\ WF_vars(NextUpload)

-----------------------------------------------------------------------------
(* The extractors on their own: one payload, one extractor applied to it.   *)

W_stress(d) ==
  [t |-> "obj",
   calendarDate |-> Str(DayStrings[d]),
   totalSteps |-> Num(9000),
   allDayStress |->
     [t |-> "obj",
      aggregatorList |->
        Arr(<<[t |-> "obj", type |-> Str("AWAKE"), averageStressLevel |-> Num(40),
               maxStressLevel |-> Num(90), stressDuration |-> Num(100)],
              [t |-> "obj", type |-> Str("TOTAL"), averageStressLevel |-> Num(30),
               maxStressLevel |-> Num(95), stressDuration |-> Num(200)]>>)]]

\* wellness objects whose allDayStress holds no TOTAL aggregate, a null
\* aggregate before the TOTAL one, no aggregatorList, or one that is no list
W_noTotal ==
  [t |-> "obj",
   calendarDate |-> Str(DayStrings[1]),
   allDayStress |->
     [t |-> "obj",
      aggregatorList |->
        Arr(<<[t |-> "obj", type |-> Str("AWAKE"), averageStressLevel |-> Num(40)]>>)]]
W_nullAggregate ==
  [t |-> "obj",
   calendarDate |-> Str(DayStrings[1]),
   allDayStress |->
     [t |-> "obj",
      aggregatorList |->
        Arr(<<Null,
              [t |-> "obj", type |-> Str("TOTAL"), averageStressLevel |-> Num(30)]>>)]]
W_noList ==
  [t |-> "obj", calendarDate |-> Str(DayStrings[1]), allDayStress |-> EmptyObj]
W_listIsNumber ==
  [t |-> "obj",
   calendarDate |-> Str(DayStrings[1]),
   allDayStress |-> [t |-> "obj", aggregatorList |-> Num(1)]]

\* a wrapper object of the summarizedActivitiesExport shape
Wrapper(acts) == [t |-> "obj", summarizedActivitiesExport |-> Arr(acts)]

\* activity payloads: wrappers after a first element that is no wrapper, and
\* bare or wrapped lists whose items use the other spellings
A_wrapperSecond == Arr(<<EmptyObj, Wrapper(<<Act(1)>>), Wrapper(<<Act(2)>>)>>)
A_bareGmt == Arr(<<Act(1)>>)
A_bareSport ==
  Arr(<<[t |-> "obj", sportType |-> Str("cycling"), startTimeGMT |-> Str(IsoStrings[1])]>>)
A_object == [t |-> "obj", activities |-> Arr(<<Act(2), Item(1)>>)]

\* body-metrics lists whose first element has only the alternate date field
M_listAlternate ==
  Arr(<<[t |-> "obj", metricsDate |-> Str(DayStrings[2]), vo2Max |-> Num(48)]>>)
M_listNoDate == Arr(<<[t |-> "obj", vo2Max |-> Num(48)]>>)

\* a sleep list with a nested list among its items
S_nested == Arr(<<Item(1), Arr(<<Num(1)>>), Str("x"), Item(2)>>)

ExtractPayloads ==
  {P_two, P_one, P_nullElem, P_emptyObj, P_wrapped, P_noDate, P_object,
   P_badStress, P_number,
   W_noTotal, W_nullAggregate, W_noList, W_listIsNumber,
   A_wrapperSecond, A_bareGmt, A_bareSport, A_object,
   M_listAlternate, M_listNoDate, S_nested,
   Null, Str("abc"), Arr(<<>>), EmptyObj,
   Arr(<<Num(1), Str("x")>>),
   Arr(<<Null, Item(1), Num(7), Item(2)>>),
   [t |-> "obj", data |-> Arr(<<Item(2), Null, Item(1)>>)],
   [t |-> "obj", sleepData |-> Num(1), records |-> Arr(<<Item(1)>>),
    items |-> Arr(<<Item(2)>>)],
   [t |-> "obj", activities |-> Arr(<<Item(3), EmptyObj>>)],
   W_stress(1),
   [t |-> "obj", calendarDate |-> Str("soon")],
   [t |-> "obj", metricsDate |-> Str(DayStrings[2]), vo2Max |-> Num(48)],
   Arr(<<[t |-> "obj", valueInML |-> Num(250), calendarDate |-> Str(DayStrings[2])],
         [t |-> "obj", calendarDate |-> Str(DayStrings[1])]>>),
   Arr(<<[t |-> "obj", summarizedActivitiesExport |-> Arr(<<Null>>)]>>),
   Arr(<<[t |-> "obj", summarizedActivitiesExport |->
            Arr(<<[t |-> "obj", sportType |-> Str("cycling"), beginTimestamp |-> Num(2)]>>)],
         [t |-> "obj", summarizedActivitiesExport |-> Arr(<<Act(1)>>)]>>),
   Arr(<<Item(1),
         [t |-> "obj", summarizedActivitiesExport |-> Arr(<<Act(2)>>)]>>),
   Arr(<<[t |-> "obj", summarizedActivitiesExport |->
            Arr(<<[t |-> "obj", activityType |-> Str("running"),
                   startTimeGMT |-> Str(IsoStrings[1])]>>)]>>)}

InitExtract ==
  /\ files = <<>>
  /\ onProgress = FALSE
  /\ i = 1
  /\ pc = "off"
  /\ processedFiles = 0
  /\ progress = <<>>
  /\ result = EmptyResult
  /\ readLog = <<>>
  /\ exPayload \in ExtractPayloads
  /\ exFn = "none"
  /\ exOut = Returned(<<>>)
  /\ run = 1
  /\ firstRun = NoFirstRun
  /\ NoUpload

parserVars ==
  <<files, onProgress, i, pc, processedFiles, progress, result, readLog, run, firstRun>>

ApplySleep ==
  /\ exFn = "none"
  /\ exFn' = "parseSleepData"
  /\ exOut' = parseSleepData(exPayload)
  /\ UNCHANGED <<parserVars, uiVars, exPayload>>

ApplyWellness ==
  /\ exFn = "none"
  /\ exFn' = "parseWellnessData"
  /\ exOut' = parseWellnessData(exPayload)
  /\ UNCHANGED <<parserVars, uiVars, exPayload>>

ApplyHydration ==
  /\ exFn = "none"
  /\ exFn' = "parseHydrationData"
  /\ exOut' = parseHydrationData(exPayload)
  /\ UNCHANGED <<parserVars, uiVars, exPayload>>

ApplyActivities ==
  /\ exFn = "none"
  /\ exFn' = "parseActivities"
  /\ exOut' = parseActivities(exPayload)
  /\ UNCHANGED <<parserVars, uiVars, exPayload>>

ApplyMetrics ==
  /\ exFn = "none"
  /\ exFn' = "parseMetricsData"
  /\ exOut' = parseMetricsData(exPayload)
  /\ UNCHANGED <<parserVars, uiVars, exPayload>>

NextExtract ==
  \/ ApplySleep
  \/ ApplyWellness
  \/ ApplyHydration
  \/ ApplyActivities
  \/ ApplyMetrics

SpecExtract == InitExtract /\ [][NextExtract]_vars

-----------------------------------------------------------------------------
(* Properties of parseGarminData.                                           *)

Range(seq) == {seq[k] : k \in 1..Len(seq)}
Last(seq) == seq[Len(seq)]

\* the indices of the non-directory entries, ascending
NonDir(fs) == SelectSeq([k \in 1..Len(fs) |-> k], LAMBDA k : ~fs[k].dir)

\* the entry parses and its extractor returns normally
EntrySucceeds(e) ==
  e.kind = "json" /\ ~ProcessData(e.name, e.data, EmptyResult).threw

\* the records the entry yields when processed alone
EntryRecords(e) == ProcessData(e.name, e.data, EmptyResult).result

\* the finished call has read every non-directory entry, in order
AllEntriesRead == readLog = NonDir(files)

\* C1: whatever fails inside one entry (the read rejects, JSON.parse throws,
\* the extractor throws), parseGarminData does not reject; when it resolves
\* every non-directory entry has been processed and every record of every
\* entry that did not fail is in the result.
C1_EntryFailuresContained ==
  /\ pc # "rejected"
  /\ pc = "done" =>
       /\ AllEntriesRead
       /\ \A k \in 1..Len(files) :
            LET o == ProcessData(files[k].name, files[k].data, EmptyResult) IN
              (files[k].kind = "json" /\ ~o.threw) =>
                \A c \in Range(Categories) :
                  Range(o.result[c]) \subseteq Range(result[c])

\* C1 witness: an entry whose extractor throws is followed by an entry whose
\* records are in the returned result
C1_Witness ==
  /\ pc = "done"
  /\ Len(files) = 2
  /\ files[1].kind = "json"
  /\ ProcessData(files[1].name, files[1].data, EmptyResult).threw
  /\ EntrySucceeds(files[2])
  /\ EntryRecords(files[2]).sleepData # <<>>
  /\ Range(EntryRecords(files[2]).sleepData) \subseteq Range(result.sleepData)

\* the field is present, not null, and parses to a date
HasDate(r, f) == ~Nullish(Get(r, f)) /\ NewDate(Get(r, f)).valid

\* a sleep file whose payload is a bare list of objects, each with a
\* parseable sleepStartTimestampGMT
IsValidSleepFile(e) ==
  /\ e.kind = "json"
  /\ Classify(e.name) = "sleepData"
  /\ IsArray(e.data)
  /\ \A k \in 1..Len(e.data.a) : e.data.a[k].t = "obj" /\ HasDate(e.data.a[k], "sleepStartTimestampGMT")

\* the last value passed to the progress callback is 1.0
FinalProgressIsOne ==
  progress # <<>> /\ Last(progress).num = Last(progress).den

\* C2: an archive of one sleep file with N valid records and one corrupt
\* (non-JSON) file, in either order, resolves with exactly N sleep records
\* and the last progress value is 1.0.
C2_RoundTrip ==
  \A a, b \in 1..Len(files) :
    (/\ pc = "done" /\ onProgress
     /\ Len(files) = 2 /\ a # b
     /\ IsValidSleepFile(files[a])
     /\ files[b].kind = "text")
    => /\ Len(result.sleepData) = Len(files[a].data.a)
       /\ FinalProgressIsOne

\* the number of non-directory entries before position idx
NonDirBefore(idx, fs) == Cardinality({k \in 1..Len(fs) : k < idx /\ ~fs[k].dir})

\* C3: every non-directory entry handled so far, whether it succeeded, failed
\* to decode or failed to parse, has incremented processedFiles by one and
\* caused one progress call; an archive whose entries all failed yields no record.
C3_EveryEntryCounted ==
  /\ pc \in {"loop", "done"} =>
       /\ processedFiles = NonDirBefore(i, files)
       /\ onProgress => Len(progress) = NonDirBefore(i, files)
  /\ (pc = "done" /\ \A k \in 1..Len(files) : files[k].kind # "json")
       => result = EmptyResult

\* C4: directory entries are excluded from the denominator of the progress
\* values, and for an archive with at least one non-directory entry the last
\* value before the call resolves is exactly 1.0.
C4_FinalProgressReachesOne ==
  /\ \A k \in 1..Len(progress) : progress[k].den = Len(NonDir(files))
  /\ (pc = "done" /\ onProgress /\ \E k \in 1..Len(files) : ~files[k].dir)
       => FinalProgressIsOne

\* C5: the values passed to the progress callback are non-decreasing and
\* each lies in [0, 1].
C5_ProgressMonotoneInRange ==
  \A k \in 1..Len(progress) :
    /\ progress[k].den > 0
    /\ 0 <= progress[k].num
    /\ progress[k].num <= progress[k].den
    /\ k > 1 => progress[k - 1].num * progress[k].den
                  <= progress[k].num * progress[k - 1].den

\* C5 witness: two progress calls, one of them after a failing entry
C5_Witness ==
  /\ pc = "done"
  /\ Len(progress) = 2
  /\ \E k \in 1..Len(files) : files[k].kind = "unreadable"

\* the collections are as the five sort calls leave them
SortApplied ==
  /\ result.sleepData \in SortOutcomes(result.sleepData, SleepSortField)
  /\ result.wellnessData \in SortOutcomes(result.wellnessData, CalendarSortField)
  /\ result.hydrationData \in SortOutcomes(result.hydrationData, CalendarSortField)
  /\ result.activities \in SortOutcomes(result.activities, ActivitySortField)
  /\ result.metricsData \in SortOutcomes(result.metricsData, CalendarSortField)

\* C6: each non-directory entry is read exactly once, in enumeration order,
\* one at a time (a read starts only when every earlier entry is handled),
\* and the result is returned only after the last entry is handled and the
\* five sort calls have run.
C6_SequentialThenSorted ==
  /\ Len(readLog) <= Len(NonDir(files))
  /\ readLog = SubSeq(NonDir(files), 1, Len(readLog))
  /\ \A k \in 1..Len(readLog) :
       IF pc = "await" /\ k = Len(readLog) THEN readLog[k] = i ELSE readLog[k] < i
  /\ pc = "done" => AllEntriesRead /\ SortApplied

\* C6 witness: two files were read in turn and the sorted result returned
C6_Witness ==
  /\ pc = "done"
  /\ readLog = <<1, 2>>
  /\ Len(result.sleepData) >= 2

\* ascending order of the dates a field parses to
Ascending(list, field) ==
  \A a, b \in 1..Len(list) :
    (a < b /\ DateKey(list[a], field).valid /\ DateKey(list[b], field).valid)
      => DateKey(list[a], field).ms <= DateKey(list[b], field).ms

\* the temporal field of an Activity (types/garmin.ts)
ActivityField == "startTimeGMT"

\* C7: in the returned result each collection is ascending in its temporal
\* field: sleepStartTimestampGMT, calendarDate (wellness, hydration,
\* metrics), startTimeGMT (activities).
C7_ResultAscending ==
  pc = "done" =>
    /\ Ascending(result.sleepData, "sleepStartTimestampGMT")
    /\ Ascending(result.wellnessData, "calendarDate")
    /\ Ascending(result.hydrationData, "calendarDate")
    /\ Ascending(result.activities, ActivityField)
    /\ Ascending(result.metricsData, "calendarDate")

\* C8: every record of the returned export has a non-null, date-parseable
\* temporal field.
C8_TemporalFieldsValid ==
  pc = "done" =>
    /\ \A r \in Range(result.sleepData) : HasDate(r, "sleepStartTimestampGMT")
    /\ \A r \in Range(result.wellnessData) : HasDate(r, "calendarDate")
    /\ \A r \in Range(result.hydrationData) : HasDate(r, "calendarDate")
    /\ \A r \in Range(result.activities) : HasDate(r, ActivityField)
    /\ \A r \in Range(result.metricsData) : HasDate(r, "calendarDate")

\* C9: each extractor returns without throwing on every JSON value, and a
\* null or scalar payload yields an empty list or null.
C9_ExtractorsTotal ==
  exFn \notin {"off", "none"} =>
    /\ ~exOut.threw
    /\ exPayload.t \in {"null", "num", "str"} =>
         IF exFn \in {"parseWellnessData", "parseMetricsData"}
         THEN exOut.out = Null
         ELSE exOut.out = <<>>

\* C10: processing one entry changes only the collection of the first rule,
\* in the order Sleep, Wellness, Hydration, Activity, BodyMetrics, that its
\* file name matches; an entry matching no rule changes no collection.
C10_FirstMatchWins ==
  [][\A c \in 1..Len(Categories) :
       (pc = "await" /\ result'[Categories[c]] # result[Categories[c]])
         => /\ RuleMatches(Categories[c], files[i].name)
            /\ \A b \in 1..(c - 1) : ~RuleMatches(Categories[b], files[i].name)]_vars

\* C10 witness: a file whose name matches the sleep and the hydration rule
\* was processed; its records went to sleepData only
C10_Witness ==
  /\ pc = "loop" /\ i = 2
  /\ files[1].name = N_sleepHydration /\ files[1].kind = "json"
  /\ parseHydrationData(files[1].data).out # <<>>
  /\ result.sleepData # <<>>
  /\ result.hydrationData = <<>>

-----------------------------------------------------------------------------
(* Properties of the classification rules and of the wellness branch.       *)

\* the two file names differ at most in letter case
SameUpToCase(a, b) == ToLowerCase(a) = ToLowerCase(b)

\* C11: two entries whose file names differ only in letter case and whose
\* payloads are equal are classified into the same category and contribute
\* the same records.
C11_CaseInsensitive ==
  pc = "done" =>
    \A a, b \in 1..Len(files) :
      (/\ files[a].kind = "json" /\ files[b].kind = "json"
       /\ SameUpToCase(files[a].name, files[b].name)
       /\ files[a].data = files[b].data)
      => /\ Classify(files[a].name) = Classify(files[b].name)
         /\ EntryRecords(files[a]) = EntryRecords(files[b])

T_activities == <<"a","c","t","i","v","i","t","i","e","s">>

\* C12: an entry whose file name contains "activities" and matches none of
\* the sleep, wellness and hydration rules is classified as Activity, and
\* what the activity extractor returns for its payload is in the result.
C12_ActivitiesNameIsActivity ==
  pc = "done" =>
    \A k \in 1..Len(files) :
      (/\ files[k].kind = "json"
       /\ Includes(ToLowerCase(files[k].name), T_activities)
       /\ ~IsSleepName(files[k].name)
       /\ ~IsWellnessName(files[k].name)
       /\ ~IsHydrationName(files[k].name))
      => /\ Classify(files[k].name) = "activities"
         /\ ~parseActivities(files[k].data).threw =>
              Range(parseActivities(files[k].data).out) \subseteq Range(result.activities)

\* the payload is an object / a list element that carries calendarDate
CarriesCalendarDate(v) == v.t = "obj" /\ Truthy(Get(v, "calendarDate"))

\* the wellness records the payload of a Wellness entry stands for: one for a
\* single per-day object, one for each per-day element of a list
WellnessDays(data) ==
  IF CarriesCalendarDate(data) THEN <<data>>
  ELSE IF IsArray(data) THEN SelectSeq(data.a, CarriesCalendarDate)
  ELSE <<>>

\* C13: a Wellness entry (processed without an error) whose payload is a
\* single object carrying calendarDate yields exactly one wellness record, and one whose payload is a
\* list yields one record for every element carrying calendarDate, in list
\* order (the collection as the loop leaves it, before the sorts).
C13_WellnessShapes ==
  \A k \in 1..Len(files) :
    (/\ pc = "loop" /\ Len(files) = 1 /\ LoopDone(i, files)
     /\ EntrySucceeds(files[k])
     /\ Classify(files[k].name) = "wellnessData")
    => /\ Len(result.wellnessData) = Len(WellnessDays(files[k].data))
       /\ \A j \in 1..Len(result.wellnessData) :
            Get(result.wellnessData[j], "calendarDate")
              = Get(WellnessDays(files[k].data)[j], "calendarDate")

-----------------------------------------------------------------------------
(* Properties of the extractors.                                            *)

\* the stress-derived fields of a wellness record, each with the field of the
\* TOTAL aggregate it is derived from
StressFields ==
  <<<<"averageStressLevel", "averageStressLevel">>,
    <<"maxStressLevel", "maxStressLevel">>,
    <<"stressDuration", "stressDuration">>,
    <<"restStressDuration", "restDuration">>,
    <<"activityStressDuration", "activityDuration">>,
    <<"uncategorizedStressDuration", "uncategorizedDuration">>,
    <<"totalStressDuration", "totalDuration">>,
    <<"lowStressDuration", "lowDuration">>,
    <<"mediumStressDuration", "mediumDuration">>,
    <<"highStressDuration", "highDuration">>>>

\* the aggregates tagged TOTAL in data.allDayStress.aggregatorList, none when
\* allDayStress or the list is missing
TotalAggregates(data) ==
  LET list == Get(Get(data, "allDayStress"), "aggregatorList") IN
  IF IsArray(list)
  THEN SelectSeq(list.a, LAMBDA g : g.t = "obj" /\ Get(g, "type") = Str("TOTAL"))
  ELSE <<>>

\* C14: for every wellness payload with a calendarDate extraction succeeds,
\* and each stress-derived field equals the field of the TOTAL aggregate of
\* allDayStress.aggregatorList, wherever it stands in the list, and is absent
\* when allDayStress is missing or holds no TOTAL aggregate.
C14_StressFromTotal ==
  (exFn = "parseWellnessData" /\ CarriesCalendarDate(exPayload)) =>
    /\ ~exOut.threw
    /\ \A k \in 1..Len(StressFields) :
         Get(exOut.out, StressFields[k][1])
           = IF TotalAggregates(exPayload) = <<>> THEN Undefined
             ELSE Get(TotalAggregates(exPayload)[1], StressFields[k][2])

\* the activities nested under summarizedActivitiesExport in the wrappers of
\* a list, concatenated in order
RECURSIVE NestedActivities(_)
NestedActivities(items) ==
  IF items = <<>> THEN <<>>
  ELSE (IF IsArray(Get(Head(items), "summarizedActivitiesExport"))
        THEN Get(Head(items), "summarizedActivitiesExport").a
        ELSE <<>>) \o NestedActivities(Tail(items))

\* a list of objects, none itself a flat activity, of which at least one is a
\* wrapper, every nested activity an object whose start time parses
IsWrapperList(data) ==
  /\ IsArray(data)
  /\ \A k \in 1..Len(data.a) : data.a[k].t = "obj" /\ ~ActivityItemOk(data.a[k])
  /\ \E k \in 1..Len(data.a) : IsArray(Get(data.a[k], "summarizedActivitiesExport"))
  /\ \A k \in 1..Len(NestedActivities(data.a)) :
       /\ NestedActivities(data.a)[k].t = "obj"
       /\ ~ActivityBuildThrows(NestedActivities(data.a)[k])

\* C15: for a payload that is a list of wrapper objects the activity extractor
\* returns one activity for each activity nested under
\* summarizedActivitiesExport in any wrapper of the list, in order, also when
\* the first element of the list is no wrapper or has no nested list.
C15_FlattensEveryWrapper ==
  (exFn = "parseActivities" /\ IsWrapperList(exPayload)) =>
    /\ ~exOut.threw
    /\ Len(exOut.out) = Len(NestedActivities(exPayload.a))
    /\ \A k \in 1..Len(exOut.out) :
         exOut.out[k] = ActivityRecord(NestedActivities(exPayload.a)[k])

\* the start time of an activity item under either spelling, else beginTimestamp
AnyStartTime(item) ==
  OrElse(OrElse(Get(item, "startTimeGMT"), Get(item, "startTimeGmt")),
         Get(item, "beginTimestamp"))

\* its type: activityType, else sportType
AnyActivityType(item) == OrElse(Get(item, "activityType"), Get(item, "sportType"))

\* the list under the first wrapper property of an object payload that holds one
WrappedActivityList(data) ==
  IF IsArray(Get(data, "summarizedActivities")) THEN Get(data, "summarizedActivities").a
  ELSE IF IsArray(Get(data, "activities")) THEN Get(data, "activities").a
  ELSE IF IsArray(Get(data, "data")) THEN Get(data, "data").a
  ELSE IF IsArray(Get(data, "records")) THEN Get(data, "records").a
  ELSE <<>>

\* the activity items of a payload in one of the three supported shapes
ActivityItems(data) ==
  IF IsArray(data)
  THEN IF \E k \in 1..Len(data.a) :
            data.a[k].t = "obj" /\ IsArray(Get(data.a[k], "summarizedActivitiesExport"))
       THEN NestedActivities(data.a)
       ELSE data.a
  ELSE IF data.t = "obj" THEN WrappedActivityList(data)
  ELSE <<>>

\* every item is an object with a type and a parseable start time under some
\* spelling
HasActivityItems(data) ==
  /\ ActivityItems(data) # <<>>
  /\ \A k \in 1..Len(ActivityItems(data)) :
       /\ ActivityItems(data)[k].t = "obj"
       /\ Truthy(AnyActivityType(ActivityItems(data)[k]))
       /\ NewDate(AnyStartTime(ActivityItems(data)[k])).valid

\* C16: in each supported shape every activity item is kept, its startTimeGMT
\* is the ISO form of the start time it carries under either spelling
\* (startTimeGMT, startTimeGmt) or else of beginTimestamp, and its
\* activityType is its activityType or else its sportType.
C16_AlternateFieldNames ==
  (exFn = "parseActivities" /\ HasActivityItems(exPayload)) =>
    /\ ~exOut.threw
    /\ Len(exOut.out) = Len(ActivityItems(exPayload))
    /\ \A k \in 1..Len(exOut.out) :
         /\ Get(exOut.out[k], "startTimeGMT")
              = ToISOString(NewDate(AnyStartTime(ActivityItems(exPayload)[k])))
         /\ Get(exOut.out[k], "activityType")
              = AnyActivityType(ActivityItems(exPayload)[k])

\* the item is an object with a valueInML property (JSON holds no undefined)
HasVolume(item) == item.t = "obj" /\ "valueInML" \in DOMAIN item

\* C17: for a bare-list hydration payload the extractor keeps exactly the
\* object items whose valueInML is defined, in order, each with a defined
\* timestampGMT: its own when present, else midnight of its calendarDate; a
\* payload that is no list yields the empty list.
C17_HydrationKept ==
  exFn = "parseHydrationData" =>
    /\ ~exOut.threw
    /\ IF IsArray(exPayload)
       THEN LET kept == SelectSeq(exPayload.a, HasVolume) IN
            /\ Len(exOut.out) = Len(kept)
            /\ \A k \in 1..Len(kept) :
                 /\ Get(exOut.out[k], "valueInML") = Get(kept[k], "valueInML")
                 /\ Get(exOut.out[k], "calendarDate") = Get(kept[k], "calendarDate")
                 /\ ~Nullish(Get(exOut.out[k], "timestampGMT"))
                 /\ Get(exOut.out[k], "timestampGMT")
                      = IF ~Nullish(Get(kept[k], "timestampGMT"))
                        THEN Get(kept[k], "timestampGMT")
                        ELSE ToISOString(NewDate(Get(kept[k], "calendarDate")))
       ELSE exOut.out = <<>>

\* the value has a date field: calendarDate or the alternate metricsDate
HasDateField(v) ==
  v.t = "obj" /\ (Truthy(Get(v, "calendarDate")) \/ Truthy(Get(v, "metricsDate")))

\* C18: the body-metrics extractor returns, for an object payload with a date
\* field, a record whose calendarDate is the payload's calendarDate or else
\* its metricsDate; for a list payload whose first element has a date field
\* (calendarDate or metricsDate), that first element; and null otherwise.
C18_MetricsShapes ==
  exFn = "parseMetricsData" =>
    /\ ~exOut.threw
    /\ IF HasDateField(exPayload)
       THEN Get(exOut.out, "calendarDate")
              = OrElse(Get(exPayload, "calendarDate"), Get(exPayload, "metricsDate"))
       ELSE IF IsArray(exPayload) /\ Len(exPayload.a) > 0 /\ HasDateField(exPayload.a[1])
       THEN exOut.out = exPayload.a[1]
       ELSE exOut.out = Null

\* typeof v === 'object' of a non-null value
ObjectTyped(v) == v.t \in {"obj", "arr"}

\* the list a sleep payload holds: the payload itself, or the value of the
\* first of sleepData, data, records, items that is a list
SleepList(data) ==
  IF IsArray(data) THEN data.a
  ELSE IF data.t # "obj" THEN <<>>
  ELSE IF IsArray(Get(data, "sleepData")) THEN Get(data, "sleepData").a
  ELSE IF IsArray(Get(data, "data")) THEN Get(data, "data").a
  ELSE IF IsArray(Get(data, "records")) THEN Get(data, "records").a
  ELSE IF IsArray(Get(data, "items")) THEN Get(data, "items").a
  ELSE <<>>

\* C19: the sleep extractor returns exactly the object-typed elements, in
\* order, of a bare-list payload, or of the first property among sleepData,
\* data, records, items of an object payload that holds a list; null, number
\* and string items are rejected and every other payload yields the empty list.
C19_SleepObjectItems ==
  exFn = "parseSleepData" =>
    /\ ~exOut.threw
    /\ exOut.out = SelectSeq(SleepList(exPayload), ObjectTyped)
    /\ \A k \in 1..Len(exOut.out) : exOut.out[k].t \notin {"null", "num", "str"}

\* C19 witness: a bare list whose null, number and string items were dropped
\* and whose object items were kept in order
C19_Witness ==
  /\ exFn = "parseSleepData"
  /\ exPayload = Arr(<<Null, Item(1), Num(7), Item(2)>>)
  /\ exOut.out = <<Item(1), Item(2)>>

-----------------------------------------------------------------------------
(* Two calls on the same archive.                                           *)

-----------------------------------------------------------------------------
(* Properties of FileUpload.processZipFile.                                 *)

\* no entry of the archive yields a record
NothingExtractable(fs) ==
  \A k \in 1..Len(fs) :
    fs[k].kind = "json" => EntryRecords(fs[k]) = EmptyResult

\* C21: for an archive from which no record is extracted parseGarminData
\* never rejects and resolves with five empty collections; processZipFile
\* then sets an error and does not call onDataLoaded; onDataLoaded is called
\* only with a result whose five lengths sum to more than zero.
C21_EmptyResultIsCallersError ==
  /\ NothingExtractable(files) => pc # "rejected"
  /\ (pc = "done" /\ NothingExtractable(files)) => result = EmptyResult
  /\ (upPc = "finished" /\ zipLoads /\ NothingExtractable(files))
       => error # Null /\ loaded = <<>>
  /\ \A k \in 1..Len(loaded) : TotalRecords(loaded[k]) > 0
  /\ (upPc = "finished" /\ zipLoads /\ ~NothingExtractable(files))
       => loaded = <<result>>

\* C21 witness: an archive holding only a directory and an unknown JSON file
\* was processed to the end
C21_Witness ==
  /\ upPc = "finished"
  /\ Len(files) = 2
  /\ \E k \in 1..2 : files[k].dir
  /\ \E k \in 1..2 : files[k].kind = "json"
  /\ result = EmptyResult
  /\ error = E_noData
  /\ loaded = <<>>

\* C22: when zip.loadAsync rejects, parseGarminData is never started,
\* onDataLoaded is never called, and processZipFile finishes with a non-null
\* error and isProcessing false; on every path processZipFile finishes and
\* isProcessing is false from then on.
C22_LoadFailureIsOneError ==
  /\ [](~zipLoads => (pc = "off" /\ readLog = <<>> /\ loaded = <<>>))
  /\ []((upPc = "finished" /\ ~zipLoads) => error # Null)
  /\ [](upPc = "finished" => ~isProcessing)
  /\ <>(upPc = "finished")

\* C22 witness: an upload whose archive failed to load has finished
C22_Witness ==
  /\ upPc = "finished"
  /\ ~zipLoads
  /\ error = E_loadFailed
  /\ ~isProcessing

-----------------------------------------------------------------------------
(* Aggregation across entries.                                              *)

IsPrefixOf(s, t) == Len(s) <= Len(t) /\ SubSeq(t, 1, Len(s)) = s

\* what each entry yields on its own, per category
RECURSIVE PerEntry(_)
PerEntry(fs) ==
  IF fs = <<>> THEN <<>>
  ELSE <<IF Head(fs).kind = "json" THEN EntryRecords(Head(fs)) ELSE EmptyResult>>
         \o PerEntry(Tail(fs))

\* the records of the first k entries, entry by entry
RECURSIVE RecordsOfEntries(_, _, _)
RecordsOfEntries(per, k, cat) ==
  IF k = 0 THEN <<>>
  ELSE RecordsOfEntries(per, k - 1, cat) \o per[k][cat]

Occurrences(s, v) == Cardinality({k \in 1..Len(s) : s[k] = v})

SameRecords(s, t) ==
  /\ Len(s) = Len(t)
  /\ \A k \in 1..Len(s) : Occurrences(s, s[k]) = Occurrences(t, s[k])

\* C27: during aggregation every collection only grows (each step leaves
\* what a collection held in front of what it holds afterwards, and the
\* final sort keeps its length); the returned collection holds the records
\* of all entries of its category, its length being the sum of the counts
\* extracted per entry.
C27_CollectionsOnlyGrow ==
  /\ [][\A c \in 1..Len(Categories) :
          IF pc' = "done"
          THEN Len(result'[Categories[c]]) = Len(result[Categories[c]])
          ELSE IsPrefixOf(result[Categories[c]], result'[Categories[c]])]_vars
  /\ []((pc = "loop" /\ LoopDone(i, files)) =>
          LET per == PerEntry(files) IN
            \A c \in 1..Len(Categories) :
              result[Categories[c]]
                = RecordsOfEntries(per, Len(files), Categories[c]))
  /\ [](pc = "done" =>
          LET per == PerEntry(files) IN
            \A c \in 1..Len(Categories) :
              SameRecords(result[Categories[c]],
                          RecordsOfEntries(per, Len(files), Categories[c])))

\* C27 witness: two sleep entries, or two activity entries, each with
\* records, were aggregated and the result returned
C27_Witness ==
  /\ pc = "done"
  /\ Len(files) = 2
  /\ \E cat \in {"sleepData", "activities"} :
       /\ EntryRecords(files[1])[cat] # <<>>
       /\ EntryRecords(files[2])[cat] # <<>>
       /\ Len(result[cat]) =
            Len(EntryRecords(files[1])[cat]) + Len(EntryRecords(files[2])[cat])

-----------------------------------------------------------------------------
(* The correlation engine (src/src/services/analytics/correlationAnalysis.ts). *)
(* Series hold integers, so every sum and product is exact.  A coefficient  *)
(* numerator / sqrt(radicand) is kept as the pair [num, rad]; 0 is          *)
(* [num |-> 0, rad |-> 1] and NaN is [num |-> 0, rad |-> 0].  A p-value is  *)
(* kept as the argument of approximatePValue, min(1, max(0, 2 * beta)) of   *)
(* the coefficient and df; it is 1 for the coefficient 0 (2 * sqrt(pi) > 1).*)

NaN == [t |-> "nan"]

RZero == [num |-> 0, rad |-> 1]
RNaN == [num |-> 0, rad |-> 0]
POne == [num |-> 0, rad |-> 1, df |-> 0]
PNaN == [num |-> 0, rad |-> 0, df |-> 0]

\* { r: 0, pValue: 1 }
SoftFail == [r |-> RZero, pValue |-> POne]

\* the result of arithmetic on undefined or NaN
NaNResult == [r |-> RNaN, pValue |-> PNaN]

\* numerator / denominator
Quotient(num, rad) == IF num = 0 THEN RZero ELSE [num |-> num, rad |-> rad]

\* lines 43-52, applied to |t| of lines 35-37
approximatePValue(num, rad, df) ==
  IF num = 0 THEN POne ELSE [num |-> num, rad |-> rad, df |-> df]

\* a.reduce((total, ai, i) => total + ai * b[i], 0)
RECURSIVE SumProducts(_, _)
SumProducts(a, b) ==
  IF a = <<>> THEN 0
  ELSE Head(a).n * Head(b).n + SumProducts(Tail(a), Tail(b))

\* a.reduce((s, v) => s + v, 0)
RECURSIVE SumValues(_)
SumValues(a) == IF a = <<>> THEN 0 ELSE Head(a).n + SumValues(Tail(a))

\* a sample of two is enough
TooFewSamplesBelowTwo(n) == n < 2

\* line 16: x.length < 3
TooFewSamples(n) == n < 3

\* lines 15-40
calculateCorrelation(x, y) ==
  IF Len(x) # Len(y) \/ TooFewSamples(Len(x)) THEN SoftFail
  ELSE IF \E k \in 1..Len(x) : x[k].t # "num" \/ y[k].t # "num" THEN NaNResult
  ELSE
    LET n == Len(x)
        sumX == SumValues(x)
        sumY == SumValues(y)
        sumXY == SumProducts(x, y)
        sumX2 == SumProducts(x, x)
        sumY2 == SumProducts(y, y)
        numerator == n * sumXY - sumX * sumY
        radicand == (n * sumX2 - sumX * sumX) * (n * sumY2 - sumY * sumY)
    IN IF radicand = 0 THEN SoftFail
       ELSE [r |-> Quotient(numerator, radicand),
             pValue |-> approximatePValue(numerator, radicand, n - 2)]

\* a[k] for a JavaScript index k: undefined outside the array
At(a, k) == IF k >= 0 /\ k < Len(a) THEN a[k + 1] ELSE Undefined

\* the partner is the x value of the same index
ShiftedIndexSame(k, lagDays) == k

\* line 64: x[i - lagDays]
ShiftedIndex(k, lagDays) == k - lagDays

\* a loop that stops one index short
LoopEndsEarly(k, dates) == k + 1 >= Len(dates)

\* line 63: the loop runs while i < dates.length
LoopEnds(k, dates) == k >= Len(dates)

\* lines 63-67: the loop from index k on
RECURSIVE LaggedPairsFrom(_, _, _, _, _)
LaggedPairsFrom(x, y, dates, lagDays, k) ==
  IF LoopEnds(k, dates) THEN <<>>
  ELSE (IF At(x, ShiftedIndex(k, lagDays)).t # "undefined" /\ At(y, k).t # "undefined"
        THEN <<[x |-> At(x, ShiftedIndex(k, lagDays)), y |-> At(y, k)]>>
        ELSE <<>>)
         \o LaggedPairsFrom(x, y, dates, lagDays, k + 1)

\* lines 55-77
calculateLaggedCorrelation(x, y, dates, lagDays) ==
  LET laggedPairs == LaggedPairsFrom(x, y, dates, lagDays, lagDays) IN
    IF Len(laggedPairs) < 3 THEN SoftFail
    ELSE calculateCorrelation([k \in 1..Len(laggedPairs) |-> laggedPairs[k].x],
                              [k \in 1..Len(laggedPairs) |-> laggedPairs[k].y])

\* the days of the analysed period, in calendar order; as date strings of
\* one format their lexical order is their calendar order
Calendar ==
  <<"2024-01-27", "2024-01-28", "2024-01-29", "2024-01-30", "2024-01-31", "2024-02-01",
    "2024-02-02", "2024-02-03", "2024-02-04", "2024-02-05", "2024-02-06", "2024-02-07">>

DayNumber(s) == CHOOSE k \in 1..Len(Calendar) : Calendar[k] = s

\* a.localeCompare(b) on two date strings: negative, zero or positive
LocaleCompare(a, b) == DayNumber(a) - DayNumber(b)

DigitStrings == <<"1", "2", "3", "4", "5", "6", "7", "8", "9">>

\* Number(value) for a number or a string
ToNumber(v) ==
  CASE v.t = "num" -> v
    [] v.t = "str" /\ v.s = "" -> Num(0)
    [] v.t = "str" /\ (\E k \in 1..Len(DigitStrings) : DigitStrings[k] = v.s) ->
         Num(CHOOSE k \in 1..Len(DigitStrings) : DigitStrings[k] = v.s)
    [] OTHER -> NaN

\* lines 93-94 and 102-103: the Map entry of the date gets the value in its
\* slot; a new key is added behind the others
MapSet(m, date, slot, value) ==
  IF \E k \in 1..Len(m) : m[k].date = date
  THEN [k \in 1..Len(m) |->
          IF m[k].date = date THEN [m[k] EXCEPT ![slot] = value] ELSE m[k]]
  ELSE Append(m, [[date |-> date, value1 |-> Undefined, value2 |-> Undefined]
                    EXCEPT ![slot] = value])

\* lines 89-96 and 98-105: data.forEach(...)
RECURSIVE AddSeries(_, _, _, _)
AddSeries(m, data, metricKey, slot) ==
  IF data = <<>> THEN m
  ELSE LET d == Head(data)
           value == Get(d, metricKey)
       IN AddSeries(IF value.t # "undefined" /\ value.t # "null"
                    THEN MapSet(m, d.date.s, slot, ToNumber(value))
                    ELSE m,
                    Tail(data), metricKey, slot)

\* the entries as the Map iterates them
SortEntriesNot(m) == m

\* lines 112-113: the entries sorted by key; the keys are distinct
SortEntries(m) ==
  [k \in 1..Len(m) |->
     m[CHOOSE j \in 1..Len(m) :
         Cardinality({h \in 1..Len(m) : LocaleCompare(m[h].date, m[j].date) < 0}) = k - 1]]

\* lines 114-120: the entries with both values
RECURSIVE BothValues(_)
BothValues(m) ==
  IF m = <<>> THEN <<>>
  ELSE (IF Head(m).value1.t # "undefined" /\ Head(m).value2.t # "undefined"
        THEN <<Head(m)>> ELSE <<>>) \o BothValues(Tail(m))

\* lines 80-123
alignDataForCorrelation(data1, data2, metric1Key, metric2Key) ==
  LET dateMap == AddSeries(AddSeries(<<>>, data1, metric1Key, "value1"),
                           data2, metric2Key, "value2")
      kept == BothValues(SortEntries(dateMap))
  IN [x |-> [k \in 1..Len(kept) |-> kept[k].value1],
      y |-> [k \in 1..Len(kept) |-> kept[k].value2],
      dates |-> [k \in 1..Len(kept) |-> kept[k].date]]

\* CorrelationAnalysis.tsx line 104: x.length >= 10
EnoughForSameDay(n) == n >= 10

\* CorrelationAnalysis.tsx line 116: dates.length > 10
EnoughForLagged(n) == n > 10

\* CorrelationAnalysis.tsx lines 96-126: one element of correlationPairs.
\* laggedPairs is the local of calculateLaggedCorrelation in the call of line 117.
AnalysePair(data1, data2, metric1, metric2) ==
  LET a == alignDataForCorrelation(data1, data2, metric1, metric2)
      same == calculateCorrelation(a.x, a.y)
      lagged == calculateLaggedCorrelation(a.x, a.y, a.dates, 1)
      withLag == EnoughForSameDay(Len(a.x)) /\ EnoughForLagged(Len(a.dates))
  IN [threw |-> FALSE,
      aligned |-> a,
      laggedPairs |-> IF withLag THEN LaggedPairsFrom(a.x, a.y, a.dates, 1, 1) ELSE <<>>,
      out |-> (IF EnoughForSameDay(Len(a.x))
               THEN <<[metric1 |-> "label1", metric2 |-> "label2",
                       correlation |-> same.r, pValue |-> same.pValue,
                       sampleSize |-> Len(a.x)]>>
               ELSE <<>>)
              \o (IF withLag
                  THEN <<[metric1 |-> "label1 (prev day)", metric2 |-> "label2 (today)",
                          correlation |-> lagged.r, pValue |-> lagged.pValue,
                          sampleSize |-> Len(a.x) - 1]>>
                  ELSE <<>>)]

\* Math.abs
Abs(n) == IF n < 0 THEN 0 - n ELSE n

\* threshold = 0.3 and pValueThreshold = 0.05, in hundredths like the
\* correlation and pValue of the entries
DefaultThreshold == 30
DefaultPValueThreshold == 5

\* a parameter with a default value
OrDefault(v, default) == IF v = Undefined THEN default ELSE v.n

\* a filter that wants more than the threshold
PassesFilterStrictly(c, threshold, pValueThreshold) ==
  Abs(c.correlation) > threshold /\ c.pValue <= pValueThreshold

\* line 132
PassesFilter(c, threshold, pValueThreshold) ==
  Abs(c.correlation) >= threshold /\ c.pValue <= pValueThreshold

RECURSIVE Filtered(_, _, _)
Filtered(list, threshold, pValueThreshold) ==
  IF list = <<>> THEN <<>>
  ELSE (IF PassesFilter(Head(list), threshold, pValueThreshold)
        THEN <<Head(list)>> ELSE <<>>)
         \o Filtered(Tail(list), threshold, pValueThreshold)

\* line 133: sort by Math.abs(b.correlation) - Math.abs(a.correlation); the
\* comparator is consistent and the sort stable, so an entry goes behind
\* those that are at least as strong
RECURSIVE InsertByStrength(_, _)
InsertByStrength(sorted, c) ==
  IF sorted = <<>> THEN <<c>>
  ELSE IF Abs(c.correlation) - Abs(Head(sorted).correlation) > 0
  THEN <<c>> \o sorted
  ELSE <<Head(sorted)>> \o InsertByStrength(Tail(sorted), c)

RECURSIVE SortByStrength(_, _)
SortByStrength(sorted, rest) ==
  IF rest = <<>> THEN sorted
  ELSE SortByStrength(InsertByStrength(sorted, Head(rest)), Tail(rest))

\* lines 126-134; filter returns a new array and sort orders that one in
\* place, so the array passed in is left as it was
findStrongestCorrelations(correlations, threshold, pValueThreshold) ==
  [threw |-> FALSE,
   out |-> SortByStrength(<<>>, Filtered(correlations,
                                         OrDefault(threshold, DefaultThreshold),
                                         OrDefault(pValueThreshold, DefaultPValueThreshold))),
   correlations |-> correlations]

-----------------------------------------------------------------------------
(* The sleep-duration rule of Insights (Insights.tsx, lines 29-62).  Times  *)
(* are counted in days, durations in seconds; the average is kept as the    *)
(* sum of the seconds and the divisor, so that comparing it with 7 and 9    *)
(* hours is exact.                                                          *)

\* line 29: subDays(new Date(), 30)
thirtyDaysAgo(now) == now - 30

\* date-fns isAfter(date, dateToCompare); false for an invalid date
isAfter(date, dateToCompare) == date.valid /\ date.ms > dateToCompare

\* lines 32-34
RECURSIVE recentSleep(_, _)
recentSleep(sleepData, now) ==
  IF sleepData = <<>> THEN <<>>
  ELSE (IF isAfter(NewDate(Get(Head(sleepData), "sleepStartTimestampGMT")),
                   thirtyDaysAgo(now))
        THEN <<Head(sleepData)>> ELSE <<>>)
         \o recentSleep(Tail(sleepData), now)

\* lines 42-44, before the division by 3600
DurationSeconds(sleep) ==
  OrElse(Get(sleep, "deepSleepSeconds"), Num(0)).n
    + OrElse(Get(sleep, "lightSleepSeconds"), Num(0)).n
    + OrElse(Get(sleep, "remSleepSeconds"), Num(0)).n

RECURSIVE TotalSeconds(_)
TotalSeconds(list) ==
  IF list = <<>> THEN 0 ELSE DurationSeconds(Head(list)) + TotalSeconds(Tail(list))

\* line 46: recentSleep.length || 1
LengthOrOne(n) == IF n = 0 THEN 1 ELSE n

\* an average of exactly 7 hours counts as too short
BelowRecommendedOrEqual(seconds, count) == seconds <= 7 * 3600 * count

\* line 48: avgSleepHours < 7, with avgSleepHours = seconds / 3600 / count
BelowRecommended(seconds, count) == seconds < 7 * 3600 * count

\* line 55: avgSleepHours >= 7 && avgSleepHours <= 9
WithinRecommended(seconds, count) ==
  seconds >= 7 * 3600 * count /\ seconds <= 9 * 3600 * count

I_belowSleep == [type |-> "warning", title |-> "Below Recommended Sleep Duration"]
I_healthySleep == [type |-> "positive", title |-> "Healthy Sleep Duration"]

\* lines 29-62: what the rule pushes to results
SleepDurationInsights(data, now) ==
  LET recent == recentSleep(data.sleepData, now)
      seconds == TotalSeconds(recent)
      count == LengthOrOne(Len(recent))
  IN IF BelowRecommended(seconds, count) THEN <<I_belowSleep>>
     ELSE IF WithinRecommended(seconds, count) THEN <<I_healthySleep>>
     ELSE <<>>

-----------------------------------------------------------------------------
(* Inputs of the correlation engine *)

\* a record of a daily series: its date and, unless v is undefined, a metric
DataPoint(day, metricKey, v) ==
  IF v = Undefined THEN [t |-> "obj", date |-> Str(Calendar[day])]
  ELSE [f \in {"t", "date", metricKey} |->
          CASE f = "t" -> "obj" [] f = "date" -> Str(Calendar[day]) [] OTHER -> v]

\* the records of days 1..n that the function has, latest day first
RECURSIVE Descending(_, _, _)
Descending(has, n, metricKey) ==
  IF n = 0 THEN <<>>
  ELSE (IF has[n] = "none" THEN <<>>
        ELSE <<DataPoint(n, metricKey, IF has[n] = "null" THEN Null ELSE Num(n))>>)
         \o Descending(has, n - 1, metricKey)

Reversed(s) == [k \in 1..Len(s) |-> s[Len(s) + 1 - k]]

ShortPeriod == 5

\* two series over the first days of the calendar: steps on any of the days,
\* latest first; sleep on any of them, some of it null, earliest first
ShortDataset(h1, h2, period) ==
  [kind |-> "datasets",
   data1 |-> Descending(h1, period, "steps"),
   data2 |-> Reversed(Descending(h2, period, "totalSleep"))]

AllBut(days, period) == [d \in 1..period |-> IF d \in days THEN "none" ELSE "value"]

\* two series over the whole calendar, each complete or with one day missing
LongDataset(m1, m2, period) ==
  [kind |-> "datasets",
   data1 |-> Reversed(Descending(AllBut(m1, period), period, "steps")),
   data2 |-> Reversed(Descending(AllBut(m2, period), period, "totalSleep"))]

AtMostOne(period) == {{}} \cup {{d} : d \in 1..period}

\* a date twice in one series, values that are strings, a record without the
\* metric, a null after a value
OddDatasets ==
  {[kind |-> "datasets",
    data1 |-> <<DataPoint(2, "steps", Num(4)), DataPoint(1, "steps", Num(1)),
                DataPoint(2, "steps", Num(6)), DataPoint(3, "steps", Str("7")),
                DataPoint(4, "steps", Str("n/a")), DataPoint(5, "steps", Undefined)>>,
    data2 |-> <<DataPoint(1, "totalSleep", Num(7)), DataPoint(1, "totalSleep", Null),
                DataPoint(2, "totalSleep", Num(8)), DataPoint(3, "totalSleep", Str("")),
                DataPoint(4, "totalSleep", Num(6)), DataPoint(5, "totalSleep", Num(5))>>],
   [kind |-> "datasets", data1 |-> <<>>, data2 |-> <<>>]}


MaxSeries == 4
MaxLag == 1

XValues == {Num(1), Num(2)}
YValues == {Num(1), Num(3), Undefined}

SeqsUpTo(S, n) == UNION {[1..k -> S] : k \in 0..n}

DatesOfLen(n) == SubSeq(Calendar, 1, IF n < Len(Calendar) THEN n ELSE Len(Calendar))

\* two series, a list of dates and a lag
SeriesInput(x, y, n, lagDays) ==
  [kind |-> "series", x |-> x, y |-> y, dates |-> DatesOfLen(n), lagDays |-> lagDays]

MaxResults == 3

\* correlation and pValue in hundredths
ResultEntries ==
  {[metric1 |-> "a", metric2 |-> "b", correlation |-> c, pValue |-> p, sampleSize |-> 12] :
     c \in {0 - 45, 0 - 30, 20, 30}, p \in {5, 6}}

\* a list of results and the two thresholds, either one left to its default
RankInput(list, threshold, pValueThreshold) ==
  [kind |-> "results", correlations |-> list,
   threshold |-> threshold, pValueThreshold |-> pValueThreshold]

MaxSleepRecords == 2

Hours(h) == h * 3600

\* nights of 6, 7, 9 and 10 hours; a field may be missing or 0
SleepDurations ==
  {[lightSleepSeconds |-> Num(Hours(6))],
   [deepSleepSeconds |-> Num(Hours(1)), lightSleepSeconds |-> Num(Hours(5)),
    remSleepSeconds |-> Num(Hours(1))],
   [deepSleepSeconds |-> Num(Hours(2)), lightSleepSeconds |-> Num(Hours(5)),
    remSleepSeconds |-> Num(Hours(2))],
   [deepSleepSeconds |-> Num(0), lightSleepSeconds |-> Num(Hours(10))]}

\* the day a night began, or a string that is no date
SleepStarts == {Num(10), Num(11), Num(39), Str("unknown")}

SleepRecords ==
  {WithField(WithField(d, "t", "obj"), "sleepStartTimestampGMT", s) :
     d \in SleepDurations, s \in SleepStarts}

\* an export's sleep records and the day the component renders
ExportInput(now, list) == [kind |-> "export", now |-> now, data |-> [sleepData |-> list]]

InitAnalytics ==
  /\ files = <<>>
  /\ onProgress = FALSE
  /\ i = 1
  /\ pc = "off"
  /\ processedFiles = 0
  /\ progress = <<>>
  /\ result = EmptyResult
  /\ readLog = <<>>
  /\ \/ \E x \in SeqsUpTo(XValues, MaxSeries), y \in SeqsUpTo(YValues, MaxSeries),
            l \in 0..MaxLag :
          \E n \in {Len(x), Len(y)} : exPayload = SeriesInput(x, y, n, l)
     \/ \E h1 \in [1..ShortPeriod -> {"none", "value"}],
            h2 \in [1..ShortPeriod -> {"none", "value", "null"}] :
          exPayload = ShortDataset(h1, h2, ShortPeriod)
     \/ \E m1 \in AtMostOne(Len(Calendar)), m2 \in AtMostOne(Len(Calendar)) :
          exPayload = LongDataset(m1, m2, Len(Calendar))
     \/ exPayload \in OddDatasets
     \/ \E l \in SeqsUpTo(ResultEntries, MaxResults),
            t \in {Undefined, Num(45)}, q \in {Undefined, Num(6)} :
          exPayload = RankInput(l, t, q)
     \/ \E n \in {40, 41}, l \in SeqsUpTo(SleepRecords, MaxSleepRecords) :
          exPayload = ExportInput(n, l)
  /\ exFn = "none"
  /\ exOut = Returned(<<>>)
  /\ run = 1
  /\ firstRun = NoFirstRun
  /\ NoUpload

ApplyCorrelation ==
  /\ exFn = "none"
  /\ exPayload.kind = "series"
  /\ exFn' = "calculateCorrelation"
  /\ exOut' = Returned(calculateCorrelation(exPayload.x, exPayload.y))
  /\ UNCHANGED <<parserVars, uiVars, exPayload>>

ApplyLagged ==
  /\ exFn = "none"
  /\ exPayload.kind = "series"
  /\ exFn' = "calculateLaggedCorrelation"
  /\ exOut' = Returned(calculateLaggedCorrelation(exPayload.x, exPayload.y,
                                                  exPayload.dates, exPayload.lagDays))
  /\ UNCHANGED <<parserVars, uiVars, exPayload>>

ApplyAlign ==
  /\ exFn = "none"
  /\ exPayload.kind = "datasets"
  /\ exFn' = "alignDataForCorrelation"
  /\ exOut' = Returned(alignDataForCorrelation(exPayload.data1, exPayload.data2,
                                               "steps", "totalSleep"))
  /\ UNCHANGED <<parserVars, uiVars, exPayload>>

ApplyAnalysePair ==
  /\ exFn = "none"
  /\ exPayload.kind = "datasets"
  /\ exFn' = "correlations"
  /\ exOut' = AnalysePair(exPayload.data1, exPayload.data2, "steps", "totalSleep")
  /\ UNCHANGED <<parserVars, uiVars, exPayload>>

ApplyStrongest ==
  /\ exFn = "none"
  /\ exPayload.kind = "results"
  /\ exFn' = "findStrongestCorrelations"
  /\ exOut' = findStrongestCorrelations(exPayload.correlations, exPayload.threshold,
                                         exPayload.pValueThreshold)
  /\ UNCHANGED <<parserVars, uiVars, exPayload>>

ApplyInsights ==
  /\ exFn = "none"
  /\ exPayload.kind = "export"
  /\ exFn' = "Insights"
  /\ exOut' = Returned(SleepDurationInsights(exPayload.data, exPayload.now))
  /\ UNCHANGED <<parserVars, uiVars, exPayload>>

NextAnalytics ==
  \/ ApplyCorrelation
  \/ ApplyLagged
  \/ ApplyAlign
  \/ ApplyAnalysePair
  \/ ApplyStrongest
  \/ ApplyInsights

SpecAnalytics == InitAnalytics /\ [][NextAnalytics]_vars

-----------------------------------------------------------------------------
(* Properties of the correlation engine.                                    *)

Numeric(s) == \A k \in 1..Len(s) : s[k].t = "num"

ConstantSeries(s) == \A j, k \in 1..Len(s) : s[j] = s[k]

\* the sum of (a[j] - a[k]) * (b[j] - b[k]) over the first m of the pairs
\* (j, k) of indices, counting those with j < k
RECURSIVE SumOverPairs(_, _, _)
SumOverPairs(a, b, m) ==
  IF m = 0 THEN 0
  ELSE LET j == ((m - 1) \div Len(a)) + 1
           k == ((m - 1) % Len(a)) + 1
       IN SumOverPairs(a, b, m - 1)
            + (IF j < k THEN (a[j].n - a[k].n) * (b[j].n - b[k].n) ELSE 0)

\* the Pearson coefficient as covariance over the root of the product of
\* the variances, each written as a sum over pairs of observations
Pearson(x, y) ==
  LET m == Len(x) * Len(x) IN
    Quotient(SumOverPairs(x, y, m), SumOverPairs(x, x, m) * SumOverPairs(y, y, m))

\* C24: on numeric series calculateCorrelation returns {r: 0, pValue: 1}
\* whenever the lengths differ, or there are fewer than 3 elements, or one
\* of the series is constant (the denominator is zero); in every other case
\* r is the Pearson coefficient.
C24_FailsSoft ==
  (exFn = "calculateCorrelation" /\ Numeric(exPayload.x) /\ Numeric(exPayload.y)) =>
    LET x == exPayload.x
        y == exPayload.y
    IN IF Len(x) # Len(y) \/ Len(x) < 3 \/ ConstantSeries(x) \/ ConstantSeries(y)
       THEN exOut = Returned(SoftFail)
       ELSE /\ ~exOut.threw
            /\ exOut.out.r = Pearson(x, y)
            /\ exOut.out.r.rad > 0

\* C24 witness: two series of length 2, neither constant, gave {r: 0, pValue: 1}
C24_Witness ==
  /\ exFn = "calculateCorrelation"
  /\ Len(exPayload.x) = 2
  /\ Len(exPayload.y) = 2
  /\ Numeric(exPayload.y)
  /\ ~ConstantSeries(exPayload.x)
  /\ ~ConstantSeries(exPayload.y)
  /\ exOut = Returned(SoftFail)

\* C25: for every x, y and dates, calculateLaggedCorrelation(x, y, dates, 0)
\* returns the same {r, pValue} as calculateCorrelation(x, y).
C25_LagZeroIsCorrelation ==
  (/\ exFn = "calculateLaggedCorrelation"
   /\ exPayload.lagDays = 0
   /\ Numeric(exPayload.x)
   /\ Numeric(exPayload.y)) =>
    exOut = Returned(calculateCorrelation(exPayload.x, exPayload.y))

\* C25 as it holds: for numeric x and y and a list of dates, all three of
\* one length, calculateLaggedCorrelation(x, y, dates, 0) returns the same
\* {r, pValue} as calculateCorrelation(x, y).
C25_LagZeroOnAlignedSeries ==
  (/\ exFn = "calculateLaggedCorrelation"
   /\ exPayload.lagDays = 0
   /\ Numeric(exPayload.x)
   /\ Numeric(exPayload.y)
   /\ Len(exPayload.x) = Len(exPayload.y)
   /\ Len(exPayload.dates) = Len(exPayload.x)) =>
    exOut = Returned(calculateCorrelation(exPayload.x, exPayload.y))

\* C25 witness: a lag of 0 on three series of one length gave a coefficient
\* other than 0
C25_Witness ==
  /\ exFn = "calculateLaggedCorrelation"
  /\ exPayload.lagDays = 0
  /\ Numeric(exPayload.y)
  /\ Len(exPayload.x) = Len(exPayload.y)
  /\ Len(exPayload.dates) = Len(exPayload.x)
  /\ exOut.out.r.num # 0

\* the indices the claim names, in ascending order, from index k on
RECURSIVE PairedIndices(_, _)
PairedIndices(S, k) ==
  IF S = {} THEN <<>>
  ELSE IF k \in S THEN <<k>> \o PairedIndices(S \ {k}, k + 1)
  ELSE PairedIndices(S, k + 1)

\* C28: for lagDays >= 0 the result of calculateLaggedCorrelation is that of
\* calculateCorrelation on the pairs (x[i - lagDays], y[i]) for the indices
\* lagDays <= i < dates.length whose two values are defined, in ascending i,
\* and {r: 0, pValue: 1} when fewer than 3 such pairs exist.
C28_LaggedPairList ==
  (exFn = "calculateLaggedCorrelation" /\ exPayload.lagDays >= 0) =>
    LET x == exPayload.x
        y == exPayload.y
        lag == exPayload.lagDays
        valid == {k \in lag..(Len(exPayload.dates) - 1) :
                    /\ k - lag < Len(x) /\ x[k - lag + 1] # Undefined
                    /\ k < Len(y) /\ y[k + 1] # Undefined}
        idx == PairedIndices(valid, 0)
        xs == [k \in 1..Len(idx) |-> x[idx[k] - lag + 1]]
        ys == [k \in 1..Len(idx) |-> y[idx[k] + 1]]
    IN exOut = Returned(IF Cardinality(valid) < 3 THEN SoftFail
                        ELSE calculateCorrelation(xs, ys))

\* C28 witness: with a lag of one day and an undefined value in y, three
\* pairs were left and a coefficient other than 0 was computed
C28_Witness ==
  /\ exFn = "calculateLaggedCorrelation"
  /\ exPayload.lagDays = 1
  /\ ~Numeric(exPayload.y)
  /\ exOut.out.r.num # 0

\* the records of a series on a date whose metric is defined and not null
ValuedRecords(data, metricKey, date) ==
  {k \in 1..Len(data) :
     /\ data[k].date = Str(date)
     /\ Get(data[k], metricKey) # Undefined
     /\ Get(data[k], metricKey) # Null}

\* the value of the metric on a date: that of the last such record
ValueOn(data, metricKey, date) ==
  LET S == ValuedRecords(data, metricKey, date)
  IN ToNumber(Get(data[CHOOSE k \in S : \A j \in S : j <= k], metricKey))

\* C23: alignDataForCorrelation returns x, y and dates of one length; dates
\* is strictly ascending, so without duplicates, and holds exactly the dates
\* on which both inputs have a record with a defined, non-null value of the
\* metric; x[i] and y[i] are the values of the two metrics on dates[i].
C23_AlignedSeries ==
  exFn = "alignDataForCorrelation" =>
    LET a == exOut.out
        d1 == exPayload.data1
        d2 == exPayload.data2
    IN /\ Len(a.x) = Len(a.dates)
       /\ Len(a.y) = Len(a.dates)
       /\ \A j, k \in 1..Len(a.dates) :
            j < k => DayNumber(a.dates[j]) < DayNumber(a.dates[k])
       /\ {a.dates[k] : k \in 1..Len(a.dates)}
            = {Calendar[d] : d \in {e \in 1..Len(Calendar) :
                 /\ ValuedRecords(d1, "steps", Calendar[e]) # {}
                 /\ ValuedRecords(d2, "totalSleep", Calendar[e]) # {}}}
       /\ \A k \in 1..Len(a.dates) :
            /\ a.x[k] = ValueOn(d1, "steps", a.dates[k])
            /\ a.y[k] = ValueOn(d2, "totalSleep", a.dates[k])

\* C23 witness: from a series given latest day first and a series with a
\* null value, some dates were dropped and at least three kept
C23_Witness ==
  /\ exFn = "alignDataForCorrelation"
  /\ Len(exPayload.data1) > 1
  /\ DayNumber(exPayload.data1[1].date.s) > DayNumber(exPayload.data1[2].date.s)
  /\ \E k \in 1..Len(exPayload.data2) : Get(exPayload.data2[k], "totalSleep") = Null
  /\ Len(exOut.out.dates) >= 3
  /\ Len(exOut.out.dates) < Len(exPayload.data1)

\* C29: with the aligned output of alignDataForCorrelation and a lag of 1,
\* every pair used in the correlation combines the y value of a date d with
\* the x value of the date exactly one day before d.
C29_LagIsCalendarDays ==
  (exFn = "correlations" /\ Len(exOut.laggedPairs) >= 3) =>
    \A p \in 1..Len(exOut.laggedPairs) :
      \E j, k \in 1..Len(exOut.aligned.dates) :
        /\ exOut.aligned.x[j] = exOut.laggedPairs[p].x
        /\ exOut.aligned.y[k] = exOut.laggedPairs[p].y
        /\ DayNumber(exOut.aligned.dates[k]) = DayNumber(exOut.aligned.dates[j]) + 1

\* C26: findStrongestCorrelations returns exactly the input entries with
\* |correlation| >= threshold and pValue <= pValueThreshold, each as often
\* as the input holds it, ordered by non-increasing |correlation|, and
\* leaves the input list as it was.
C26_StrongestExactlyFiltered ==
  exFn = "findStrongestCorrelations" =>
    LET in == exPayload.correlations
        out == exOut.out
        th == IF exPayload.threshold = Undefined THEN 30 ELSE exPayload.threshold.n
        pth == IF exPayload.pValueThreshold = Undefined THEN 5
               ELSE exPayload.pValueThreshold.n
        Strong(c) ==
          /\ (c.correlation >= th \/ 0 - c.correlation >= th)
          /\ c.pValue <= pth
    IN /\ \A c \in Range(in) \cup Range(out) :
            Occurrences(out, c) = IF Strong(c) THEN Occurrences(in, c) ELSE 0
       /\ \A j, k \in 1..Len(out) :
            j < k => Abs(out[j].correlation) >= Abs(out[k].correlation)
       /\ exOut.correlations = in

\* C26 witness: of three entries one was dropped, one sat exactly on the
\* default threshold, and the two kept came out in the other order
C26_Witness ==
  /\ exFn = "findStrongestCorrelations"
  /\ exPayload.threshold = Undefined
  /\ Len(exPayload.correlations) = 3
  /\ Len(exOut.out) = 2
  /\ exOut.out[2].correlation = 0 - 30
  /\ exOut.out = <<exPayload.correlations[3], exPayload.correlations[1]>>

\* the sleep records of an export that began after the day 30 days before now
RecentIndices(export, now) ==
  {k \in 1..Len(export.sleepData) :
     LET start == NewDate(Get(export.sleepData[k], "sleepStartTimestampGMT"))
     IN start.valid /\ start.ms > now - 30}

RECURSIVE SecondsOf(_, _)
SecondsOf(export, S) ==
  IF S = {} THEN 0
  ELSE LET k == CHOOSE j \in S : TRUE
           r == export.sleepData[k]
           Field(f) == IF f \in DOMAIN r THEN r[f].n ELSE 0
       IN Field("deepSleepSeconds") + Field("lightSleepSeconds")
            + Field("remSleepSeconds") + SecondsOf(export, S \ {k})

\* C30: the sleep-duration rule emits at most one observation: the warning
\* exactly when the average over the sleep records of the last 30 days is
\* below 7 hours, the healthy observation exactly when it is from 7 to 9
\* hours, none above 9; the average is 0 when there is no such record,
\* which gives the warning.
C30_SleepDurationRule ==
  exFn = "Insights" =>
    LET S == RecentIndices(exPayload.data, exPayload.now)
        n == Cardinality(S)
        seconds == SecondsOf(exPayload.data, S)
        out == exOut.out
        Emitted(title) == \E k \in 1..Len(out) : out[k].title = title
    IN /\ Len(out) <= 1
       /\ n = 0 => out = <<I_belowSleep>>
       /\ n > 0 =>
            /\ Emitted("Below Recommended Sleep Duration") <=> seconds < 7 * 3600 * n
            /\ Emitted("Healthy Sleep Duration")
                 <=> (seconds >= 7 * 3600 * n /\ seconds <= 9 * 3600 * n)
            /\ seconds > 9 * 3600 * n => out = <<>>

\* C30 witness: two recent nights of 7 hours each, an average of exactly 7,
\* gave the healthy observation
C30_Witness ==
  /\ exFn = "Insights"
  /\ Len(exPayload.data.sleepData) = 2
  /\ RecentIndices(exPayload.data, exPayload.now) = {1, 2}
  /\ SecondsOf(exPayload.data, {1, 2}) = 2 * 7 * 3600
  /\ exOut.out = <<I_healthySleep>>

=============================================================================
